---- MODULE Spec2Model ----
(***************************************************************************)
(* PlayWise engine: the multi-index track store (identity map, title and   *)
(* artist maps, rating tree, playback history, favorites heap, playlists)  *)
(* and the operations that keep the indices in step.                       *)
(*                                                                         *)
(* Song objects are mutable and shared by reference; an object is named by *)
(* its identifier, `song` is the store of all objects ever constructed,    *)
(* and every index holds identifiers (references to those objects).        *)
(* Strings are sequences of one-character strings so that lower() and      *)
(* strip() and the substring test are computed, not assumed.               *)
(***************************************************************************)
EXTENDS Integers, Sequences, FiniteSets, TLC

\* ------------------------------------------------------------------ bounds
MaxSongs == 2
MaxPlays == 1
MaxListen == 2
MaxCap == 2
MaxPlaylistLen == 2
MaxPlaylists == 1
MaxManaged == 2
MaxFavSongs == 3
MaxHistCap == 3
MaxHistPlays == 2
MaxEditLen == 3
MaxSortCalls == 1
MaxDays == 1
MaxSecondsOfDay == 90
MaxMerged == 2
MaxReplays == 2

\* ------------------------------------------------------- program constants
None == -1
NoneStr == <<"<None>">>
DefaultFavMaxSize == 1000
DefaultHistMaxSize == 100
MinRating == 0
MaxRating == 5
DefaultStrategy == "title_artist"
cache_duration == 60
SecondsPerDay == 86400
SortAlgorithms == { "merge", "quick", "builtin" }

\* ------------------------------------------------------------- input sets
Titles == { <<"A", " ">>, <<"a", "b">> }
Artists == { <<"X">>, <<"y">> }
Durations == { 180 }
RatingInputs == { 1, 5, 7 }
ListenInputs == { None, 1 }
Queries == { <<"A">>, <<"a">>, <<"b">>, <<"a", "b">>, <<" ">>, <<"X">>, <<"y">> }

VARIABLES
  song,                 \* Song objects: id -> fields
  songs_by_id,          \* SongLookup.songs_by_id (ids mapped to their object)
  songs_by_title,       \* SongLookup.songs_by_title, in dict insertion order
  songs_by_artist,      \* SongLookup.songs_by_artist, in dict insertion order
  all_songs,            \* SongLookup.all_songs
  root,                 \* SongRatingTree.root (rating of the root node, or None)
  tree,                 \* RatingNode objects: rating -> [songs, left, right]
  total_songs,          \* SongRatingTree.total_songs
  history,              \* PlaybackHistory.history
  hist_max_size,        \* PlaybackHistory.max_size
  heap,                 \* FavoritesQueue.heap
  song_index,           \* FavoritesQueue.song_index
  max_size,             \* FavoritesQueue.max_size
  playlists,            \* PlaylistEngine.playlists: id -> songs
  current_playlist_id,  \* PlaylistEngine.current_playlist_id
  loop,                 \* the API's event loop: the handler it is inside, or Idle
  current_strategy,     \* AutoCleaner.current_strategy
  sort_calls,           \* PlaylistSorter.sort_stats[algorithm]['calls']
  clock,                \* datetime.now(), in whole seconds
  last_snapshot,        \* SystemSnapshot.last_snapshot: <<>> for None, else <<dict>>
  last_snapshot_time,   \* SystemSnapshot.last_snapshot_time, or None
  last                  \* the last request served and what it returned

vars == << song, songs_by_id, songs_by_title, songs_by_artist, all_songs,
           root, tree, total_songs, history, hist_max_size,
           heap, song_index, max_size, playlists, current_playlist_id, loop,
           current_strategy, sort_calls,
           clock, last_snapshot, last_snapshot_time, last >>

\* ------------------------------------------------------------ str methods
Max(a, b) == IF a >= b THEN a ELSE b
Min(a, b) == IF a <= b THEN a ELSE b

LowerChar(c) ==
  CASE c = "A" -> "a"
    [] c = "B" -> "b"
    [] c = "X" -> "x"
    [] c = "Y" -> "y"
    [] OTHER -> c

Lower(s) == [i \in 1..Len(s) |-> LowerChar(s[i])]

RECURSIVE LStrip(_)
LStrip(s) == IF s # <<>> /\ Head(s) = " " THEN LStrip(Tail(s)) ELSE s

RECURSIVE RStrip(_)
RStrip(s) ==
  IF s # <<>> /\ s[Len(s)] = " " THEN RStrip(SubSeq(s, 1, Len(s) - 1)) ELSE s

Strip(s) == RStrip(LStrip(s))

\* key = x.lower().strip()
NormKey(s) == Strip(Lower(s))

\* q in s
Contains(s, q) ==
  \E i \in 1..(Len(s) - Len(q) + 1) : SubSeq(s, i, i + Len(q) - 1) = q

\* ------------------------------------------------------- list/dict helpers
RECURSIVE SeqFilter(_, _)
SeqFilter(s, keep) ==
  IF s = <<>> THEN <<>>
  ELSE IF Head(s) \in keep THEN <<Head(s)>> \o SeqFilter(Tail(s), keep)
  ELSE SeqFilter(Tail(s), keep)

RECURSIVE Concat(_)
Concat(ss) == IF ss = <<>> THEN <<>> ELSE Head(ss) \o Concat(Tail(ss))

Range(s) == { s[i] : i \in 1..Len(s) }
Count(s, x) == Cardinality({ i \in 1..Len(s) : s[i] = x })

\* list.remove(x): drops the first occurrence; the caller has checked x is in s
ListRemove(s, x) ==
  LET i == CHOOSE j \in 1..Len(s) : s[j] = x /\ \A k \in 1..(j - 1) : s[k] # x
  IN SubSeq(s, 1, i - 1) \o SubSeq(s, i + 1, Len(s))

\* list.pop(i) with a 1-based position
ListPop(s, i) == SubSeq(s, 1, i - 1) \o SubSeq(s, i + 1, Len(s))

\* list.insert(i, x) with a 0-based python index 0 <= i
ListInsert(s, i, x) ==
  IF i >= Len(s) THEN Append(s, x)
  ELSE SubSeq(s, 1, i) \o <<x>> \o SubSeq(s, i + 1, Len(s))

\* An insertion-ordered dict of lists: a sequence of [key, songs] entries.
DictHas(d, k) == \E i \in 1..Len(d) : d[i].key = k
DictPos(d, k) == CHOOSE i \in 1..Len(d) : d[i].key = k
DictGet(d, k) == IF DictHas(d, k) THEN d[DictPos(d, k)].songs ELSE <<>>
DictKeys(d) == { d[i].key : i \in 1..Len(d) }

\* ------------------------------------------------------------------- Song
NewSong(title, artist, duration, rating) ==
  [ title |-> title, artist |-> artist, duration |-> duration,
    rating |-> Max(MinRating, Min(MaxRating, rating)),
    listen_time |-> 0, play_count |-> 0 ]

ClampRating(r) == Max(MinRating, Min(MaxRating, r))

\* ------------------------------------------------------------- SongLookup
add_to_lookup(d, key, s) ==
  IF DictHas(d, key)
  THEN [i \in 1..Len(d) |->
          IF d[i].key = key THEN [d[i] EXCEPT !.songs = Append(@, s)] ELSE d[i]]
  ELSE Append(d, [key |-> key, songs |-> <<s>>])

\* (variant: the title is filed as written)
add_to_title_lookup_raw(d, sg, s) == add_to_lookup(d, sg[s].title, s)

add_to_title_lookup(d, sg, s) == add_to_lookup(d, NormKey(sg[s].title), s)

add_to_artist_lookup(d, sg, s) == add_to_lookup(d, NormKey(sg[s].artist), s)

\* (variant: the bucket is left as it was)
remove_from_lookup_skipped(d, key, s) == d

\* (variant: a bucket emptied by the removal keeps its key)
remove_from_lookup_keeps_key(d, key, s) ==
  IF ~DictHas(d, key) THEN d
  ELSE IF s \notin Range(DictGet(d, key)) THEN d
  ELSE [d EXCEPT ![DictPos(d, key)].songs = ListRemove(@, s)]

remove_from_lookup(d, key, s) ==
  IF ~DictHas(d, key) THEN d
  ELSE IF s \notin Range(DictGet(d, key)) THEN d       \* ValueError: pass
  ELSE LET p == DictPos(d, key)
           rest == ListRemove(d[p].songs, s)
       IN IF rest = <<>> THEN ListPop(d, p)
          ELSE [d EXCEPT ![p].songs = rest]

remove_from_title_lookup(d, sg, s) == remove_from_lookup(d, NormKey(sg[s].title), s)
remove_from_artist_lookup(d, sg, s) == remove_from_lookup(d, NormKey(sg[s].artist), s)

\* The lookup tables as one value, so that the methods compose.
Lookup == [ by_id |-> songs_by_id, by_title |-> songs_by_title,
            by_artist |-> songs_by_artist, all |-> all_songs ]

\* (variant: the id is not tested before the song is filed)
lookup_add_song_unchecked(L, sg, s) ==
  [ L |-> [ by_id |-> L.by_id \cup {s},
            by_title |-> add_to_title_lookup(L.by_title, sg, s),
            by_artist |-> add_to_artist_lookup(L.by_artist, sg, s),
            all |-> L.all \cup {s} ],
    ret |-> TRUE ]

lookup_add_song(L, sg, s) ==
  IF s \in L.by_id THEN [L |-> L, ret |-> FALSE]
  ELSE [ L |-> [ by_id |-> L.by_id \cup {s},
                 by_title |-> add_to_title_lookup(L.by_title, sg, s),
                 by_artist |-> add_to_artist_lookup(L.by_artist, sg, s),
                 all |-> L.all \cup {s} ],
         ret |-> TRUE ]

lookup_remove_song(L, sg, s) ==
  IF s \notin L.by_id THEN [L |-> L, ret |-> FALSE]
  ELSE [ L |-> [ by_id |-> L.by_id \ {s},
                 by_title |-> remove_from_title_lookup(L.by_title, sg, s),
                 by_artist |-> remove_from_artist_lookup(L.by_artist, sg, s),
                 all |-> L.all \ {s} ],
         ret |-> TRUE ]

\* update_song(song): the stored object and the argument are the same object,
\* so the removal derives its keys from the fields as they are now.
lookup_update_song(L, sg, s) ==
  IF s \notin L.by_id THEN [L |-> L, ret |-> FALSE]
  ELSE lookup_add_song(lookup_remove_song(L, sg, s).L, sg, s)

\* (variant: the id is looked up among all the objects ever made)
get_song_of_any_object(by_id, s) == IF s \in DOMAIN song THEN s ELSE None

get_song(by_id, s) == IF s \in by_id THEN s ELSE None

search_by_title(d, title) == DictGet(d, NormKey(title))
search_by_artist(d, artist) == DictGet(d, NormKey(artist))

fuzzy_search(d, query) ==
  LET q == NormKey(query)
  IN IF q = <<>> THEN <<>>
     ELSE Concat([i \in 1..Len(d) |->
                    IF Contains(d[i].key, q) THEN d[i].songs ELSE <<>>])

fuzzy_search_title(d, query) == fuzzy_search(d, query)
fuzzy_search_artist(d, query) == fuzzy_search(d, query)

\* --------------------------------------------------------- SongRatingTree
\* A RatingNode is named by its rating (keys are unique in the tree).
RatingNode(s) == [songs |-> <<s>>, left |-> None, right |-> None]

RatingTree == [root |-> root, tree |-> tree, total |-> total_songs]

RECURSIVE insert_recursive(_, _, _, _)
insert_recursive(T, node, s, rating) ==
  IF rating = node THEN
    IF s \notin Range(T.tree[node].songs)
    THEN [T |-> [T EXCEPT !.tree[node].songs = Append(@, s),
                          !.total = @ + 1], ret |-> TRUE]
    ELSE [T |-> T, ret |-> FALSE]
  ELSE IF rating < node THEN
    IF T.tree[node].left = None
    THEN [T |-> [T EXCEPT
                   !.tree = (rating :> RatingNode(s)) @@ [@ EXCEPT ![node].left = rating],
                   !.total = @ + 1], ret |-> TRUE]
    ELSE insert_recursive(T, T.tree[node].left, s, rating)
  ELSE
    IF T.tree[node].right = None
    THEN [T |-> [T EXCEPT
                   !.tree = (rating :> RatingNode(s)) @@ [@ EXCEPT ![node].right = rating],
                   !.total = @ + 1], ret |-> TRUE]
    ELSE insert_recursive(T, T.tree[node].right, s, rating)

\* insert_song(song, rating); rating = None means song.rating
insert_song(T, sg, s, rating) ==
  LET target_rating == ClampRating(IF rating # None THEN rating ELSE sg[s].rating)
  IN IF T.root = None
     THEN [T |-> [root |-> target_rating,
                  tree |-> (target_rating :> RatingNode(s)),
                  total |-> T.total + 1], ret |-> TRUE]
     ELSE insert_recursive(T, T.root, s, target_rating)

RECURSIVE find_node(_, _, _)
find_node(T, node, rating) ==
  IF node = None \/ node = rating THEN node
  ELSE IF rating < node THEN find_node(T, T.tree[node].left, rating)
  ELSE find_node(T, T.tree[node].right, rating)

search_by_rating(T, rating) ==
  LET node == find_node(T, T.root, ClampRating(rating))
  IN IF node # None THEN T.tree[node].songs ELSE <<>>

RECURSIVE delete_song_recursive(_, _, _)
delete_song_recursive(T, node, s) ==
  IF node = None THEN [T |-> T, ret |-> FALSE]
  ELSE IF s \in Range(T.tree[node].songs)
  THEN [T |-> [T EXCEPT !.tree[node].songs = ListRemove(@, s),
                        !.total = @ - 1], ret |-> TRUE]
  ELSE LET found_left == delete_song_recursive(T, T.tree[node].left, s)
       IN IF found_left.ret THEN found_left
          ELSE delete_song_recursive(T, T.tree[node].right, s)

\* is_empty, get_song_count
is_empty(T) == T.root = None

get_song_count(T) == T.total

\* the songs that the nodes hold, counted node by node
RECURSIVE songs_in_nodes(_, _)
songs_in_nodes(t, nodes) ==
  IF nodes = {} THEN 0
  ELSE LET n == CHOOSE n \in nodes : TRUE
       IN Len(t[n].songs) + songs_in_nodes(t, nodes \ {n})

\* (variant: the song leaves its node, the count of songs stays)
tree_delete_keeps_count(T, s) ==
  [delete_song_recursive(T, T.root, s) EXCEPT !.T.total = T.total]

\* (variant: only the root node is searched)
tree_delete_root_only(T, s) ==
  IF T.root # None /\ s \in Range(T.tree[T.root].songs)
  THEN [T |-> [T EXCEPT !.tree[T.root].songs = ListRemove(@, s),
                        !.total = @ - 1], ret |-> TRUE]
  ELSE [T |-> T, ret |-> FALSE]

tree_delete_song(T, s) == delete_song_recursive(T, T.root, s)

\* (variant: the right subtree is entered only when the whole range lies to
\* the right of the node)
RECURSIVE range_search_prunes_right(_, _, _, _)
range_search_prunes_right(T, node, min_rating, max_rating) ==
  IF node = None THEN <<>>
  ELSE (IF min_rating <= node /\ node <= max_rating THEN T.tree[node].songs ELSE <<>>)
       \o (IF min_rating < node
           THEN range_search_prunes_right(T, T.tree[node].left, min_rating, max_rating)
           ELSE <<>>)
       \o (IF min_rating > node
           THEN range_search_prunes_right(T, T.tree[node].right, min_rating, max_rating)
           ELSE <<>>)

RECURSIVE range_search(_, _, _, _)
range_search(T, node, min_rating, max_rating) ==
  IF node = None THEN <<>>
  ELSE (IF min_rating <= node /\ node <= max_rating THEN T.tree[node].songs ELSE <<>>)
       \o (IF min_rating < node
           THEN range_search(T, T.tree[node].left, min_rating, max_rating) ELSE <<>>)
       \o (IF max_rating > node
           THEN range_search(T, T.tree[node].right, min_rating, max_rating) ELSE <<>>)

get_songs_by_rating_range(T, min_rating, max_rating) ==
  LET lo == ClampRating(min_rating)
      hi == ClampRating(max_rating)
  IN IF lo > hi THEN range_search(T, T.root, hi, lo)
     ELSE range_search(T, T.root, lo, hi)

\* result[:limit]
SliceTo(s, limit) ==
  IF limit >= 0 THEN SubSeq(s, 1, Min(limit, Len(s)))
  ELSE SubSeq(s, 1, Max(0, Len(s) + limit))

\* (variant: each band is put in front of the bands already collected)
RECURSIVE top_rated_loop_low_first(_, _, _, _)
top_rated_loop_low_first(T, rating, result, limit) ==
  IF rating < MinRating THEN result
  ELSE LET r2 == search_by_rating(T, rating) \o result
       IN IF Len(r2) >= limit THEN r2
          ELSE top_rated_loop_low_first(T, rating - 1, r2, limit)

RECURSIVE top_rated_loop(_, _, _, _)
top_rated_loop(T, rating, result, limit) ==
  IF rating < MinRating THEN result
  ELSE LET r2 == result \o search_by_rating(T, rating)
       IN IF Len(r2) >= limit THEN r2
          ELSE top_rated_loop(T, rating - 1, r2, limit)

get_top_rated_songs(T, limit) ==
  SliceTo(top_rated_loop(T, MaxRating, <<>>, limit), limit)

\* -------------------------------------------------------- PlaybackHistory
\* (variant: the oldest entry goes only once the list is over capacity)
add_to_history_late(h, cap, s) ==
  Append(IF Len(h) > cap THEN Tail(h) ELSE h, s)

\* add_to_history(song): the list part; the play count is bumped by the caller
\* of this operator on the song store.
add_to_history(h, cap, s) ==
  Append(IF Len(h) >= cap THEN Tail(h) ELSE h, s)

\* (variant: the entry taken is the oldest one)
undo_takes_oldest(h) ==
  IF h # <<>> THEN [h |-> Tail(h), item |-> Head(h)] ELSE [h |-> h, item |-> None]

\* undo_last_play(): self.history.pop() when the list is not empty, else None
undo_last_play(h) ==
  IF h # <<>> THEN [h |-> SubSeq(h, 1, Len(h) - 1), item |-> h[Len(h)]]
  ELSE [h |-> h, item |-> None]

\* (variant: the count is set, not added to)
play_count_set_to_one(sg, s) == [sg EXCEPT ![s].play_count = 1]

increment_play_count(sg, s) == [sg EXCEPT ![s].play_count = @ + 1]

add_listen_time(sg, s, seconds) == [sg EXCEPT ![s].listen_time = @ + seconds]

\* reversed(history[-k:])
Reverse(s) == [i \in 1..Len(s) |-> s[Len(s) + 1 - i]]

get_recent_history(h, k) ==
  IF k <= 0 THEN <<>>
  ELSE Reverse(SubSeq(h, Max(1, Len(h) - k + 1), Len(h)))

\* unique songs of the history, first occurrence first, then a stable sort by
\* play count, descending
RECURSIVE Unique(_)
Unique(s) ==
  IF s = <<>> THEN <<>>
  ELSE LET u == Unique(SubSeq(s, 1, Len(s) - 1))
       IN IF s[Len(s)] \in Range(u) THEN u ELSE Append(u, s[Len(s)])

RECURSIVE StableInsert(_, _, _)
StableInsert(sorted, x, key) ==
  IF sorted = <<>> THEN <<x>>
  ELSE IF key[sorted[Len(sorted)]] >= key[x] THEN Append(sorted, x)
  ELSE Append(StableInsert(SubSeq(sorted, 1, Len(sorted) - 1), x, key),
              sorted[Len(sorted)])

RECURSIVE StableSortDesc(_, _)
StableSortDesc(s, key) ==
  IF s = <<>> THEN <<>>
  ELSE StableInsert(StableSortDesc(SubSeq(s, 1, Len(s) - 1), key), s[Len(s)], key)

get_most_played_songs(h, sg, limit) ==
  SliceTo(StableSortDesc(Unique(h), [s \in DOMAIN sg |-> sg[s].play_count]), limit)

\* ---------------------------------------------------------- FavoriteItem
FavoriteItem(sg, s, priority_value) ==
  [ song |-> s, priority |-> -priority_value,
    listen_time |-> sg[s].listen_time, play_count |-> sg[s].play_count ]

\* FavoriteItem.__lt__
ItemLt(a, b) ==
  IF a.priority # b.priority THEN a.priority < b.priority
  ELSE -a.play_count < -b.play_count

\* ------------------------------------------------------------------ heapq
\* The library's binary heap over a list, positions 0-based as in the library;
\* the list is a sequence, so position p is element p + 1.
RECURSIVE siftdown_loop(_, _, _, _)
siftdown_loop(h, startpos, pos, newitem) ==
  IF pos > startpos
  THEN LET parentpos == (pos - 1) \div 2
           parent == h[parentpos + 1]
       IN IF ItemLt(newitem, parent)
          THEN siftdown_loop([h EXCEPT ![pos + 1] = parent], startpos, parentpos, newitem)
          ELSE [h EXCEPT ![pos + 1] = newitem]
  ELSE [h EXCEPT ![pos + 1] = newitem]

siftdown(h, startpos, pos) == siftdown_loop(h, startpos, pos, h[pos + 1])

RECURSIVE siftup_loop(_, _, _, _, _)
siftup_loop(h, startpos, pos, childpos, newitem) ==
  IF childpos < Len(h)
  THEN LET rightpos == childpos + 1
           c == IF rightpos < Len(h) /\ ~ItemLt(h[childpos + 1], h[rightpos + 1])
                THEN rightpos ELSE childpos
       IN siftup_loop([h EXCEPT ![pos + 1] = h[c + 1]], startpos, c, 2 * c + 1, newitem)
  ELSE siftdown([h EXCEPT ![pos + 1] = newitem], startpos, pos)

siftup(h, pos) == siftup_loop(h, pos, pos, 2 * pos + 1, h[pos + 1])

heappush(h, item) == siftdown(Append(h, item), 0, Len(h))

\* heappop on a non-empty heap: the popped item and the heap left behind
heappop(h) ==
  LET lastelt == h[Len(h)]
      rest == SubSeq(h, 1, Len(h) - 1)
  IN IF rest # <<>>
     THEN [item |-> rest[1], heap |-> siftup([rest EXCEPT ![1] = lastelt], 0)]
     ELSE [item |-> lastelt, heap |-> rest]

RECURSIVE heapify_loop(_, _)
heapify_loop(h, i) == IF i < 0 THEN h ELSE heapify_loop(siftup(h, i), i - 1)

heapify(h) == heapify_loop(h, (Len(h) \div 2) - 1)

\* --------------------------------------------------------- FavoritesQueue
\* A queue value Q = [heap, song_index]; sg is the song store the items point
\* into. Methods return the new queue, the new song store and the return value.
FavQueue == [heap |-> heap, song_index |-> song_index]

rebuild_index(h) ==
  [id \in { h[i].song : i \in 1..Len(h) } |->
     (CHOOSE i \in 1..Len(h) :
        h[i].song = id /\ \A j \in (i + 1)..Len(h) : h[j].song # id) - 1]

update_listen_time(Q, sg, song_id, new_time) ==
  IF \E i \in 1..Len(Q.heap) : Q.heap[i].song = song_id
  THEN LET i == CHOOSE j \in 1..Len(Q.heap) :
                  /\ Q.heap[j].song = song_id
                  /\ \A k \in 1..(j - 1) : Q.heap[k].song # song_id
           h1 == [Q.heap EXCEPT ![i].listen_time = new_time,
                                ![i].priority = -new_time]
           h2 == heapify(h1)
       IN [ Q |-> [heap |-> h2, song_index |-> rebuild_index(h2)],
            sg |-> [sg EXCEPT ![song_id].listen_time = new_time],
            ret |-> TRUE ]
  ELSE [Q |-> Q, sg |-> sg, ret |-> FALSE]

\* python's `a or b` on Optional[int]
Or(a, b) == IF a # None /\ a # 0 THEN a ELSE b

\* (variant: the capacity test lets one entry too many in)
is_full_late(h, cap) == Len(h) > cap

\* len(self.heap) >= self.max_size
is_full(h, cap) == Len(h) >= cap

\* (variant: the evicted entry's key is left in the index)
index_kept(idx, id) == idx

\* del self.song_index[id]
index_without(idx, id) == [x \in DOMAIN idx \ {id} |-> idx[x]]

\* the listen time a newcomer must beat when the queue is full: -self.heap[0].priority
threshold_at_capacity(h) == -h[1].priority

fav_add_song(Q, sg, s, listen_time, cap) ==
  IF s \in DOMAIN Q.song_index
  THEN update_listen_time(Q, sg, s, Or(listen_time, sg[s].listen_time))
  ELSE
    LET priority_value == IF listen_time # None THEN listen_time ELSE sg[s].listen_time
        sg1 == IF listen_time # None THEN [sg EXCEPT ![s].listen_time = listen_time]
               ELSE sg
        favorite_item == FavoriteItem(sg1, s, priority_value)
        full == is_full(Q.heap, cap)
        qualifies == priority_value > threshold_at_capacity(Q.heap)
        popped == heappop(Q.heap)
        Q1 == IF full
              THEN [ heap |-> popped.heap,
                     song_index |-> index_without(Q.song_index, popped.item.song) ]
              ELSE Q
        h2 == heappush(Q1.heap, favorite_item)
    IN IF full /\ ~qualifies
       THEN [Q |-> Q, sg |-> sg1, ret |-> FALSE]
       ELSE [ Q |-> [ heap |-> h2,
                      song_index |-> (s :> (Len(h2) - 1)) @@ Q1.song_index ],
              sg |-> sg1, ret |-> TRUE ]

\* [item for item in self.heap if item.song.id != song_id]
RECURSIVE ItemsWithout(_, _)
ItemsWithout(h, song_id) ==
  IF h = <<>> THEN <<>>
  ELSE (IF Head(h).song # song_id THEN <<Head(h)>> ELSE <<>>)
       \o ItemsWithout(Tail(h), song_id)

fav_remove_song(Q, song_id) ==
  IF song_id \notin DOMAIN Q.song_index THEN [Q |-> Q, ret |-> FALSE]
  ELSE LET h2 == heapify(ItemsWithout(Q.heap, song_id))
       IN [Q |-> [heap |-> h2, song_index |-> rebuild_index(h2)], ret |-> TRUE]

\* the entry of the result list made from a popped item
TopEntry(sg, item) ==
  [ song |-> [id |-> item.song, listen_time |-> sg[item.song].listen_time,
              play_count |-> sg[item.song].play_count],
    listen_time |-> item.listen_time,
    play_count |-> item.play_count,
    priority_score |-> -item.priority ]

RECURSIVE top_songs_loop(_, _, _, _)
top_songs_loop(heap_copy, sg, n, top_songs) ==
  IF n <= 0 \/ heap_copy = <<>>
  THEN [top |-> top_songs, work |-> heap_copy]
  ELSE LET p == heappop(heap_copy)
       IN top_songs_loop(p.heap, sg, n - 1, Append(top_songs, TopEntry(sg, p.item)))

\* (variant: the loop pops from self.heap itself)
live_heap_is_worked(h, worked) == worked

\* heap_copy = self.heap.copy(): the loop pops from a list of its own, so
\* self.heap after the loop is the list as it was, not the worked-on list
live_heap_after_extraction(h, worked) == h

\* get_top_songs(count): the result list, and self.heap as the call leaves it
get_top_songs(h, sg, count) ==
  IF h = <<>> THEN [top |-> <<>>, heap |-> h]
  ELSE LET run == top_songs_loop(h, sg, Min(count, Len(h)), <<>>)
       IN [top |-> run.top, heap |-> live_heap_after_extraction(h, run.work)]

\* --------------------------------------------------------- PlaylistEngine
get_target_playlist(pls, current, playlist_id) ==
  IF playlist_id # None
  THEN (IF playlist_id \in DOMAIN pls THEN playlist_id ELSE None)
  ELSE IF current # None
  THEN (IF current \in DOMAIN pls THEN current ELSE None)
  ELSE None

\* (variant: a playlist object is true whatever it holds)
playlist_bool_of_object(songs) == TRUE

\* bool(playlist): Playlist defines __len__ and no __bool__, so the object is
\* true exactly when the playlist holds a song
playlist_bool(songs) == Len(songs) > 0

\* `if target_playlist:` in the operations of PlaylistEngine, on the result of
\* _get_target_playlist
target_is_true(pls, target) ==
  IF target = None THEN FALSE ELSE playlist_bool(pls[target])

\* get_playlist, get_current_playlist: the playlist returned, None for none
get_playlist(pls, playlist_id) ==
  IF playlist_id \in DOMAIN pls THEN playlist_id ELSE None

get_current_playlist(pls, current) ==
  IF current # None THEN get_playlist(pls, current) ELSE None

\* set_current_playlist
set_current_playlist(pls, current, playlist_id) ==
  IF playlist_id \in DOMAIN pls
  THEN [current |-> playlist_id, ret |-> TRUE]
  ELSE [current |-> current, ret |-> FALSE]

\* next(iter(self.playlists), None): the playlist created first of those left
\* (ids grow with creation)
first_playlist(pls) ==
  IF DOMAIN pls = {} THEN None
  ELSE CHOOSE p \in DOMAIN pls : \A q \in DOMAIN pls : p <= q

\* (variant: the current id stays when its playlist is deleted)
delete_playlist_keeps_current(pls, current, playlist_id) ==
  IF playlist_id \in DOMAIN pls
  THEN [playlists |-> [p \in DOMAIN pls \ {playlist_id} |-> pls[p]],
        current |-> current, ret |-> TRUE]
  ELSE [playlists |-> pls, current |-> current, ret |-> FALSE]

\* delete_playlist
delete_playlist(pls, current, playlist_id) ==
  IF playlist_id \in DOMAIN pls
  THEN LET rest == [p \in DOMAIN pls \ {playlist_id} |-> pls[p]]
       IN [playlists |-> rest,
           current |-> IF current = playlist_id THEN first_playlist(rest) ELSE current,
           ret |-> TRUE]
  ELSE [playlists |-> pls, current |-> current, ret |-> FALSE]

\* PlayWiseEngine.get_playlist_info: the playlist whose to_dict() is returned,
\* None when None is returned;
\* get_playlist(playlist_id) or get_current_playlist(), then `if playlist:`
get_playlist_info(pls, current, playlist_id) ==
  LET named == get_playlist(pls, playlist_id)
      playlist == IF target_is_true(pls, named) THEN named
                  ELSE get_current_playlist(pls, current)
  IN IF target_is_true(pls, playlist) THEN playlist ELSE None

\* (variant: -1 is a position like any other below 0)
playlist_add_song_no_sentinel(songs, s, position) ==
  IF position >= Len(songs) THEN Append(songs, s)
  ELSE ListInsert(songs, Max(0, position), s)

\* Playlist.add_song(song, position)
playlist_add_song(songs, s, position) ==
  IF position = -1 \/ position >= Len(songs) THEN Append(songs, s)
  ELSE ListInsert(songs, Max(0, position), s)

\* (variant: an index below 0 counts from the end, as list.pop takes it)
playlist_remove_song_from_end(songs, index) ==
  LET i == IF index < 0 THEN Len(songs) + index ELSE index
  IN IF 0 <= i /\ i < Len(songs)
     THEN [songs |-> SubSeq(songs, 1, i) \o SubSeq(songs, i + 2, Len(songs)),
           item |-> songs[i + 1]]
     ELSE [songs |-> songs, item |-> None]

\* Playlist.remove_song(index): the list left, and the song returned (or None)
playlist_remove_song(songs, index) ==
  IF 0 <= index /\ index < Len(songs)
  THEN [songs |-> SubSeq(songs, 1, index) \o SubSeq(songs, index + 2, Len(songs)),
        item |-> songs[index + 1]]
  ELSE [songs |-> songs, item |-> None]

\* (variant: the song goes back in before the entry now at to_index + 1)
playlist_move_song_after(songs, from_index, to_index) ==
  IF 0 <= from_index /\ from_index < Len(songs) /\ 0 <= to_index /\ to_index < Len(songs)
  THEN [songs |-> ListInsert(playlist_remove_song(songs, from_index).songs,
                             to_index + 1, songs[from_index + 1]),
        ret |-> TRUE]
  ELSE [songs |-> songs, ret |-> FALSE]

\* Playlist.move_song(from_index, to_index): songs.pop, then songs.insert
playlist_move_song(songs, from_index, to_index) ==
  IF 0 <= from_index /\ from_index < Len(songs) /\ 0 <= to_index /\ to_index < Len(songs)
  THEN [songs |-> ListInsert(playlist_remove_song(songs, from_index).songs,
                             to_index, songs[from_index + 1]),
        ret |-> TRUE]
  ELSE [songs |-> songs, ret |-> FALSE]

\* PlaylistEngine.add_song(song, position, playlist_id) on the list of its
\* target playlist
engine_add_song(songs, s, position) ==
  IF playlist_bool(songs)
  THEN [songs |-> playlist_add_song(songs, s, position), ret |-> TRUE]
  ELSE [songs |-> songs, ret |-> FALSE]

\* PlaylistEngine.clear_playlist, then PlaylistEngine.add_song(song, -1) for
\* each song of a list
RECURSIVE playlist_refill(_, _)
playlist_refill(songs, new_songs) ==
  IF new_songs = <<>> THEN songs
  ELSE playlist_refill(engine_add_song(songs, Head(new_songs), -1).songs,
                       Tail(new_songs))

\* ------------------------------------------------------------ AutoCleaner
\* (the cumulative counters duplicates_found and unique_songs_processed, which
\* only get_cleaning_stats reads, are left out)
Strategies == { "title_artist", "title_artist_duration", "title_only", "strict" }

\* str(n) of a natural number, one character per digit
RECURSIVE Digits(_)
Digits(n) == IF n < 10 THEN << ToString(n) >> ELSE Digits(n \div 10) \o << ToString(n % 10) >>

generate_title_artist_key(sg, s) ==
  NormKey(sg[s].title) \o <<"_">> \o NormKey(sg[s].artist)

generate_full_key(sg, s) ==
  NormKey(sg[s].title) \o <<"_">> \o NormKey(sg[s].artist) \o <<"_">> \o Digits(sg[s].duration)

generate_title_key(sg, s) == NormKey(sg[s].title)

generate_strict_key(sg, s) ==
  NormKey(sg[s].title) \o <<"_">> \o NormKey(sg[s].artist) \o <<"_">>
    \o Digits(sg[s].duration) \o <<"_">> \o Digits(sg[s].rating)

\* self.key_strategies[self.current_strategy](song)
key_generator(strategy, sg, s) ==
  CASE strategy = "title_artist" -> generate_title_artist_key(sg, s)
    [] strategy = "title_artist_duration" -> generate_full_key(sg, s)
    [] strategy = "title_only" -> generate_title_key(sg, s)
    [] strategy = "strict" -> generate_strict_key(sg, s)

\* remove_duplicates: the loop over songs; seen holds the keys met so far
RECURSIVE remove_duplicates_loop(_, _, _, _, _)
remove_duplicates_loop(sg, strategy, songs, seen, unique_songs) ==
  IF songs = <<>> THEN unique_songs
  ELSE LET composite_key == key_generator(strategy, sg, Head(songs))
       IN IF composite_key \notin seen
          THEN remove_duplicates_loop(sg, strategy, Tail(songs),
                                      seen \cup {composite_key},
                                      Append(unique_songs, Head(songs)))
          ELSE remove_duplicates_loop(sg, strategy, Tail(songs), seen, unique_songs)

remove_duplicates(sg, strategy, songs) ==
  remove_duplicates_loop(sg, strategy, songs, {}, <<>>)

\* (variant: a later song of the key takes the place of the one kept whenever
\* its rating is not lower)
is_better_or_equal_rated(sg, s, existing_song) ==
  sg[s].rating >= sg[existing_song].rating

\* the test of clean_playlist_duplicates under keep_highest_rated
is_better(sg, s, existing_song) ==
  \/ sg[s].rating > sg[existing_song].rating
  \/ /\ sg[s].rating = sg[existing_song].rating
     /\ sg[s].play_count > sg[existing_song].play_count

\* clean_playlist_duplicates: the loop over songs; key_to_best_song is the dict
\* in insertion order, a sequence of [key, song]
RECURSIVE clean_loop(_, _, _, _, _)
clean_loop(sg, strategy, songs, keep_highest_rated, key_to_best_song) ==
  IF songs = <<>> THEN key_to_best_song
  ELSE LET s == Head(songs)
           composite_key == key_generator(strategy, sg, s)
           at == { i \in 1..Len(key_to_best_song) :
                     key_to_best_song[i].key = composite_key }
       IN IF at = {}
          THEN clean_loop(sg, strategy, Tail(songs), keep_highest_rated,
                          Append(key_to_best_song, [key |-> composite_key, song |-> s]))
          ELSE LET i == CHOOSE j \in at : TRUE
               IN IF keep_highest_rated /\ is_better(sg, s, key_to_best_song[i].song)
                  THEN clean_loop(sg, strategy, Tail(songs), keep_highest_rated,
                                  [key_to_best_song EXCEPT ![i].song = s])
                  ELSE clean_loop(sg, strategy, Tail(songs), keep_highest_rated,
                                  key_to_best_song)

\* (variant: one call drops the first song that repeats an earlier key, and
\* no other)
clean_drops_one_duplicate(sg, strategy, songs, keep_highest_rated) ==
  LET repeats == { i \in 1..Len(songs) :
                     \E j \in 1..(i - 1) : key_generator(strategy, sg, songs[j])
                                              = key_generator(strategy, sg, songs[i]) }
  IN IF repeats = {} THEN songs
     ELSE LET i == CHOOSE k \in repeats : \A m \in repeats : k <= m
          IN SubSeq(songs, 1, i - 1) \o SubSeq(songs, i + 1, Len(songs))

\* list(key_to_best_song.values())
clean_playlist_duplicates(sg, strategy, songs, keep_highest_rated) ==
  LET best == clean_loop(sg, strategy, songs, keep_highest_rated, <<>>)
  IN [i \in 1..Len(best) |-> best[i].song]

\* ---------------------------------------------------------- PlaylistSorter
\* ord(c) of the characters that titles and artists are written with
CharCode(c) ==
  CASE c = " " -> 32
    [] c = "A" -> 65
    [] c = "B" -> 66
    [] c = "X" -> 88
    [] c = "Y" -> 89
    [] c = "_" -> 95
    [] c = "a" -> 97
    [] c = "b" -> 98
    [] c = "x" -> 120
    [] c = "y" -> 121

\* a < b on str
RECURSIVE StrLt(_, _)
StrLt(a, b) ==
  IF b = <<>> THEN FALSE
  ELSE IF a = <<>> THEN TRUE
  ELSE IF Head(a) = Head(b) THEN StrLt(Tail(a), Tail(b))
  ELSE CharCode(Head(a)) < CharCode(Head(b))

SortCriteria == { "title", "artist", "duration", "rating", "date_added", "play_count" }
StringCriteria == { "title", "artist" }

\* the key_func of sort_by_<criteria>; date_added, the datetime.now() of the
\* song's construction, orders songs as their ids do
key_func(criteria, sg, s) ==
  CASE criteria = "title" -> Lower(sg[s].title)
    [] criteria = "artist" -> Lower(sg[s].artist)
    [] criteria = "duration" -> sg[s].duration
    [] criteria = "rating" -> sg[s].rating
    [] criteria = "date_added" -> s
    [] criteria = "play_count" -> sg[s].play_count

\* key_func(x) < key_func(y), key_func(x) <= key_func(y)
KeyLt(criteria, sg, x, y) ==
  IF criteria \in StringCriteria
  THEN StrLt(key_func(criteria, sg, x), key_func(criteria, sg, y))
  ELSE key_func(criteria, sg, x) < key_func(criteria, sg, y)

KeyEq(criteria, sg, x, y) == key_func(criteria, sg, x) = key_func(criteria, sg, y)

KeyLe(criteria, sg, x, y) == KeyLt(criteria, sg, x, y) \/ KeyEq(criteria, sg, x, y)

\* (variant: on equal keys the right half goes first)
RECURSIVE merge_right_first_on_ties(_, _, _, _)
merge_right_first_on_ties(criteria, sg, left, right) ==
  IF left = <<>> THEN right
  ELSE IF right = <<>> THEN left
  ELSE IF KeyLt(criteria, sg, Head(left), Head(right))
  THEN <<Head(left)>> \o merge_right_first_on_ties(criteria, sg, Tail(left), right)
  ELSE <<Head(right)>> \o merge_right_first_on_ties(criteria, sg, left, Tail(right))

\* _merge: key_func(left[i]) <= key_func(right[j]) takes from the left
RECURSIVE merge(_, _, _, _)
merge(criteria, sg, left, right) ==
  IF left = <<>> THEN right
  ELSE IF right = <<>> THEN left
  ELSE IF KeyLe(criteria, sg, Head(left), Head(right))
  THEN <<Head(left)>> \o merge(criteria, sg, Tail(left), right)
  ELSE <<Head(right)>> \o merge(criteria, sg, left, Tail(right))

RECURSIVE merge_sort(_, _, _)
merge_sort(criteria, sg, songs) ==
  IF Len(songs) <= 1 THEN songs
  ELSE LET mid == Len(songs) \div 2
       IN merge(criteria, sg,
                merge_sort(criteria, sg, SubSeq(songs, 1, mid)),
                merge_sort(criteria, sg, SubSeq(songs, mid + 1, Len(songs))))

\* (variant: the middle part is the pivot alone)
RECURSIVE quick_sort_single_pivot(_, _, _)
quick_sort_single_pivot(criteria, sg, songs) ==
  IF Len(songs) <= 1 THEN songs
  ELSE LET pivot == songs[Len(songs) \div 2 + 1]
       IN quick_sort_single_pivot(criteria, sg,
                     SelectSeq(songs, LAMBDA x : KeyLt(criteria, sg, x, pivot)))
          \o << pivot >>
          \o quick_sort_single_pivot(criteria, sg,
                     SelectSeq(songs, LAMBDA x : KeyLt(criteria, sg, pivot, x)))

RECURSIVE quick_sort(_, _, _)
quick_sort(criteria, sg, songs) ==
  IF Len(songs) <= 1 THEN songs
  ELSE LET pivot == songs[Len(songs) \div 2 + 1]
       IN quick_sort(criteria, sg,
                     SelectSeq(songs, LAMBDA x : KeyLt(criteria, sg, x, pivot)))
          \o SelectSeq(songs, LAMBDA x : KeyEq(criteria, sg, x, pivot))
          \o quick_sort(criteria, sg,
                     SelectSeq(songs, LAMBDA x : KeyLt(criteria, sg, pivot, x)))

\* sorted(songs, key=key_func): the stable sort of the platform
RECURSIVE sorted_insert(_, _, _, _)
sorted_insert(criteria, sg, done, x) ==
  IF done = <<>> THEN <<x>>
  ELSE IF KeyLe(criteria, sg, done[Len(done)], x) THEN Append(done, x)
  ELSE Append(sorted_insert(criteria, sg, SubSeq(done, 1, Len(done) - 1), x),
              done[Len(done)])

RECURSIVE sorted(_, _, _)
sorted(criteria, sg, songs) ==
  IF songs = <<>> THEN <<>>
  ELSE sorted_insert(criteria, sg,
                     sorted(criteria, sg, SubSeq(songs, 1, Len(songs) - 1)),
                     songs[Len(songs)])

\* _sort_with_algorithm: the list returned
sort_with_algorithm(criteria, sg, songs, reverse, algorithm) ==
  LET result == CASE algorithm = "merge" -> merge_sort(criteria, sg, songs)
                  [] algorithm = "quick" -> quick_sort(criteria, sg, songs)
                  [] OTHER -> sorted(criteria, sg, songs)
  IN IF reverse THEN Reverse(result) ELSE result

\* _sort_with_algorithm: sort_stats[...]['calls'] as the call leaves them
calls_after_sort(calls, algorithm) ==
  IF algorithm \in DOMAIN calls THEN [calls EXCEPT ![algorithm] = @ + 1] ELSE calls

\* multi_key(x) < multi_key(y) on the lists that multi_key builds: a string key
\* goes in as the pair (key, reverse), a number as key or -key; any other
\* criteria name gives 0
RECURSIVE MultiKeyLt(_, _, _, _)
MultiKeyLt(criteria_list, sg, x, y) ==
  IF criteria_list = <<>> THEN FALSE
  ELSE LET criteria == Head(criteria_list).criteria
           reverse == Head(criteria_list).reverse
       IN IF criteria \notin SortCriteria
          THEN MultiKeyLt(Tail(criteria_list), sg, x, y)
          ELSE IF KeyEq(criteria, sg, x, y)
          THEN MultiKeyLt(Tail(criteria_list), sg, x, y)
          ELSE IF criteria \in StringCriteria
          THEN KeyLt(criteria, sg, x, y)
          ELSE IF reverse
          THEN -key_func(criteria, sg, x) < -key_func(criteria, sg, y)
          ELSE key_func(criteria, sg, x) < key_func(criteria, sg, y)

RECURSIVE multi_sorted_insert(_, _, _, _)
multi_sorted_insert(criteria_list, sg, done, x) ==
  IF done = <<>> THEN <<x>>
  ELSE IF ~MultiKeyLt(criteria_list, sg, x, done[Len(done)]) THEN Append(done, x)
  ELSE Append(multi_sorted_insert(criteria_list, sg, SubSeq(done, 1, Len(done) - 1), x),
              done[Len(done)])

\* sort_by_multiple_criteria: songs.copy(), or sorted(songs, key=multi_key)
RECURSIVE sort_by_multiple_criteria(_, _, _)
sort_by_multiple_criteria(criteria_list, sg, songs) ==
  IF criteria_list = <<>> \/ songs = <<>> THEN songs
  ELSE multi_sorted_insert(criteria_list, sg,
         sort_by_multiple_criteria(criteria_list, sg, SubSeq(songs, 1, Len(songs) - 1)),
         songs[Len(songs)])

\* ------------------------------------------------------------ the engine
\* the event loop with no handler on it
Idle == [op |-> "idle", id |-> None, arg |-> None, old |-> None, pc |-> 0]

\* what `last` records of a request: its name, whether it succeeded, the list
\* it returned when it returns one, and the song it returned when it returns one
Last(op, ret) == [op |-> op, ret |-> ret, top |-> <<>>, item |-> None]

SetLookup(L) ==
  /\ songs_by_id' = L.by_id
  /\ songs_by_title' = L.by_title
  /\ songs_by_artist' = L.by_artist
  /\ all_songs' = L.all

SetTree(T) ==
  /\ root' = T.root
  /\ tree' = T.tree
  /\ total_songs' = T.total

SetFav(Q) ==
  /\ heap' = Q.heap
  /\ song_index' = Q.song_index

lookupVars == << songs_by_id, songs_by_title, songs_by_artist, all_songs >>
treeVars == << root, tree, total_songs >>
favVars == << heap, song_index >>
playlistVars == << playlists, current_playlist_id >>
\* the capacities set at construction and the event loop of the API above the
\* engine
cacheVars == << clock, last_snapshot, last_snapshot_time >>
serverVars == << hist_max_size, max_size, loop, cacheVars >>
\* the cleaner's strategy and the sorter's call counts, which only the cleaner's
\* and the sorter's own operations write
toolVars == << current_strategy, sort_calls >>
hostVars == << serverVars, toolVars >>

Ids == 1..MaxSongs
Stored(s) == s \in songs_by_id

\* PlayWiseEngine.create_song on a store St = [song, L, T]
create_song(St, title, artist, duration, rating) ==
  LET s == Cardinality(DOMAIN St.song) + 1
      sg == (s :> NewSong(title, artist, duration, rating)) @@ St.song
  IN [ song |-> sg,
       L |-> lookup_add_song(St.L, sg, s).L,
       T |-> insert_song(St.T, sg, s, None).T,
       id |-> s ]

CreateSong(title, artist, duration, rating) ==
  /\ Cardinality(DOMAIN song) < MaxSongs
  /\ LET St == create_song([song |-> song, L |-> Lookup, T |-> RatingTree],
                           title, artist, duration, rating)
     IN /\ song' = St.song
        /\ SetLookup(St.L)
        /\ SetTree(St.T)
        /\ last' = Last("create_song", TRUE)
  /\ UNCHANGED << history, favVars, playlistVars, hostVars >>

\* PlayWiseEngine.play_song, followed while the song has fewer than max_plays
\* plays
play_song(max_plays, song_id, listen_duration) ==
  IF get_song(songs_by_id, song_id) = None
  THEN /\ last' = Last("play_song", FALSE)
       /\ UNCHANGED << song, lookupVars, treeVars, history, favVars,
                       playlistVars, hostVars >>
  ELSE /\ song[song_id].play_count < max_plays
       /\ listen_duration # None =>
            song[song_id].listen_time + listen_duration <= MaxListen
       /\ LET sg1 == increment_play_count(song, song_id)
              sg2 == IF listen_duration # None /\ listen_duration # 0
                     THEN add_listen_time(sg1, song_id, listen_duration)
                     ELSE sg1
              fav == fav_add_song(FavQueue, sg2, song_id, None, max_size)
          IN /\ history' = add_to_history(history, hist_max_size, song_id)
             /\ song' = fav.sg
             /\ SetFav(fav.Q)
       /\ last' = Last("play_song", TRUE)
       /\ UNCHANGED << lookupVars, treeVars, playlistVars, hostVars >>

PlaySong(song_id, listen_duration) == play_song(MaxPlays, song_id, listen_duration)

\* play_song on a song that may have been played before
ReplaySong(song_id, listen_duration) == play_song(MaxReplays, song_id, listen_duration)

\* PlayWiseEngine.rate_song
RateSong(song_id, rating) ==
  IF get_song(songs_by_id, song_id) = None
  THEN /\ last' = Last("rate_song", FALSE)
       /\ UNCHANGED << song, lookupVars, treeVars, history, favVars,
                       playlistVars, hostVars >>
  ELSE /\ LET old_rating == song[song_id].rating
              sg1 == [song EXCEPT ![song_id].rating = ClampRating(rating)]
              T1 == IF old_rating # rating
                    THEN insert_song(tree_delete_song(RatingTree, song_id).T,
                                     sg1, song_id, None).T
                    ELSE RatingTree
          IN /\ song' = sg1
             /\ SetLookup(lookup_update_song(Lookup, sg1, song_id).L)
             /\ SetTree(T1)
       /\ last' = Last("rate_song", TRUE)
       /\ UNCHANGED << history, favVars, playlistVars, hostVars >>

\* api.update_song (PUT /songs/{song_id})
ApiUpdateSong(song_id, title, artist, duration, rating) ==
  IF get_song(songs_by_id, song_id) = None
  THEN /\ last' = Last("update_song", FALSE)
       /\ UNCHANGED << song, lookupVars, treeVars, history, favVars,
                       playlistVars, hostVars >>
  ELSE /\ LET sg1 == [song EXCEPT
                        ![song_id].title = IF title # NoneStr THEN title ELSE @,
                        ![song_id].artist = IF artist # NoneStr THEN artist ELSE @,
                        ![song_id].duration = IF duration # None THEN duration ELSE @,
                        ![song_id].rating = IF rating # None THEN ClampRating(rating) ELSE @]
          IN /\ song' = sg1
             /\ SetLookup(lookup_update_song(Lookup, sg1, song_id).L)
       /\ last' = Last("update_song", TRUE)
       /\ UNCHANGED << treeVars, history, favVars, playlistVars, hostVars >>

\* api.delete_song (DELETE /songs/{song_id})
ApiDeleteSong(song_id) ==
  IF get_song(songs_by_id, song_id) = None
  THEN /\ last' = Last("delete_song", FALSE)
       /\ UNCHANGED << song, lookupVars, treeVars, history, favVars,
                       playlistVars, hostVars >>
  ELSE /\ SetLookup(lookup_remove_song(Lookup, song, song_id).L)
       /\ SetTree(tree_delete_song(RatingTree, song_id).T)
       /\ SetFav(fav_remove_song(FavQueue, song_id).Q)
       /\ last' = Last("delete_song", TRUE)
       /\ UNCHANGED << song, history, playlistVars, hostVars >>

\* PlaybackHistory.add_to_history, called directly
RecordPlay(s) ==
  /\ s \in DOMAIN song
  /\ song[s].play_count < MaxHistPlays
  /\ history' = add_to_history(history, hist_max_size, s)
  /\ song' = increment_play_count(song, s)
  /\ last' = Last("add_to_history", TRUE)
  /\ UNCHANGED << lookupVars, treeVars, favVars, playlistVars, hostVars >>

\* PlayWiseEngine.undo_last_play
UndoLastPlay ==
  /\ LET u == undo_last_play(history)
     IN /\ history' = u.h
        /\ last' = [Last("undo_last_play", u.item # None) EXCEPT !.item = u.item]
  /\ UNCHANGED << song, lookupVars, treeVars, favVars, playlistVars, hostVars >>

\* SongLookup.add_song, called with a second Song object that was constructed
\* with the id of a stored song
LookupAddDuplicate(s, title, artist, duration) ==
  /\ s \in songs_by_id
  /\ LET second == [song EXCEPT ![s] = NewSong(title, artist, duration, MinRating)]
         r == lookup_add_song(Lookup, second, s)
     IN /\ SetLookup(r.L)
        /\ last' = Last("lookup_add_song", r.ret)
  /\ UNCHANGED << song, treeVars, history, favVars, playlistVars, hostVars >>

\* PlaylistEngine.create_playlist, while fewer than max_playlists were created;
\* the new id follows the ids in use
create_playlist(max_playlists) ==
  LET pid == IF DOMAIN playlists = {} THEN 1
             ELSE 1 + CHOOSE p \in DOMAIN playlists : \A q \in DOMAIN playlists : q <= p
  IN /\ pid <= max_playlists
     /\ playlists' = (pid :> <<>>) @@ playlists
     /\ current_playlist_id' =
          IF current_playlist_id = None THEN pid ELSE current_playlist_id
     /\ last' = Last("create_playlist", TRUE)
     /\ UNCHANGED << song, lookupVars, treeVars, history, favVars, hostVars >>

\* PlayWiseEngine.create_playlist
CreatePlaylist == create_playlist(MaxPlaylists)

\* PlaylistEngine.set_current_playlist
SetCurrentPlaylist(playlist_id) ==
  /\ LET r == set_current_playlist(playlists, current_playlist_id, playlist_id)
     IN /\ current_playlist_id' = r.current
        /\ last' = [Last("set_current_playlist", r.ret) EXCEPT !.item = playlist_id]
  /\ UNCHANGED << song, lookupVars, treeVars, history, favVars, playlists, hostVars >>

\* PlaylistEngine.delete_playlist
DeletePlaylist(playlist_id) ==
  /\ LET r == delete_playlist(playlists, current_playlist_id, playlist_id)
     IN /\ playlists' = r.playlists
        /\ current_playlist_id' = r.current
        /\ last' = [Last("delete_playlist", r.ret) EXCEPT !.item = playlist_id]
  /\ UNCHANGED << song, lookupVars, treeVars, history, favVars, hostVars >>

\* PlayWiseEngine.add_song_to_playlist
AddSongToPlaylist(song_id, playlist_id, position) ==
  LET target == get_target_playlist(playlists, current_playlist_id, playlist_id)
  IN IF get_song(songs_by_id, song_id) = None
        \/ ~target_is_true(playlists, target)
     THEN /\ last' = Last("add_song_to_playlist", FALSE)
          /\ UNCHANGED << song, lookupVars, treeVars, history, favVars,
                          playlistVars, hostVars >>
     ELSE /\ Len(playlists[target]) < MaxPlaylistLen
          /\ playlists' = [playlists EXCEPT
                             ![target] = playlist_add_song(@, song_id, position)]
          /\ last' = Last("add_song_to_playlist", TRUE)
          /\ UNCHANGED << song, lookupVars, treeVars, history, favVars,
                          current_playlist_id, hostVars >>

\* --------------------------------------------- FavoritesQueue, called directly
FavAddSong(s, listen_time) ==
  /\ s \in DOMAIN song
  /\ LET fav == fav_add_song(FavQueue, song, s, listen_time, max_size)
     IN /\ SetFav(fav.Q)
        /\ song' = fav.sg
        /\ last' = Last("add_song", fav.ret)
  /\ UNCHANGED << lookupVars, treeVars, history, playlistVars, hostVars >>

FavUpdateListenTime(song_id, new_time) ==
  /\ LET fav == update_listen_time(FavQueue, song, song_id, new_time)
     IN /\ SetFav(fav.Q)
        /\ song' = fav.sg
        /\ last' = Last("update_listen_time", fav.ret)
  /\ UNCHANGED << lookupVars, treeVars, history, playlistVars, hostVars >>

FavRemoveSong(song_id) ==
  /\ LET fav == fav_remove_song(FavQueue, song_id)
     IN /\ SetFav(fav.Q)
        /\ last' = Last("remove_song", fav.ret)
  /\ UNCHANGED << song, lookupVars, treeVars, history, playlistVars, hostVars >>

GetTopSongs(count) ==
  /\ LET r == get_top_songs(heap, song, count)
     IN /\ heap' = r.heap
        /\ last' = [op |-> "get_top_songs", ret |-> TRUE, top |-> r.top, item |-> None]
  /\ UNCHANGED << song, song_index, lookupVars, treeVars, history,
                  playlistVars, hostVars >>

\* SongRatingTree.delete_song, called directly on the engine's rating tree
TreeDeleteSong(song_id) ==
  /\ LET r == tree_delete_song(RatingTree, song_id)
     IN /\ SetTree(r.T)
        /\ last' = Last("tree_delete_song", r.ret)
  /\ UNCHANGED << song, lookupVars, history, favVars, playlistVars, hostVars >>

\* ------------------------------ songs, playlists and the cleaner, called directly
\* Song.increment_play_count on a song object
IncrementPlayCount(s) ==
  /\ s \in DOMAIN song
  /\ song[s].play_count < MaxPlays
  /\ song' = increment_play_count(song, s)
  /\ last' = Last("increment_play_count", TRUE)
  /\ UNCHANGED << lookupVars, treeVars, history, favVars, playlistVars, hostVars >>

\* PlaylistEngine.get_songs
get_songs(pls, current, playlist_id) ==
  LET target == get_target_playlist(pls, current, playlist_id)
  IN IF target_is_true(pls, target) THEN pls[target] ELSE <<>>

\* Playlist.add_song(song, position), called on the playlist object that
\* PlaylistEngine.get_playlist(playlist_id) returns
PlaylistObjectAddSong(s, position, playlist_id) ==
  /\ s \in DOMAIN song
  /\ playlist_id \in DOMAIN playlists
  /\ Len(playlists[playlist_id]) < MaxEditLen
  /\ playlists' = [playlists EXCEPT
                     ![playlist_id] = playlist_add_song(@, s, position)]
  /\ last' = Last("add_song", TRUE)
  /\ UNCHANGED << song, lookupVars, treeVars, history, favVars,
                  current_playlist_id, hostVars >>

\* PlaylistEngine.add_song(song, position, playlist_id)
PlaylistAddSong(s, position, playlist_id) ==
  /\ s \in DOMAIN song
  /\ LET target == get_target_playlist(playlists, current_playlist_id, playlist_id)
     IN IF ~target_is_true(playlists, target)
        THEN /\ last' = Last("playlist_add_song", FALSE)
             /\ UNCHANGED playlists
        ELSE /\ Len(playlists[target]) < MaxEditLen
             /\ playlists' = [playlists EXCEPT
                                ![target] = playlist_add_song(@, s, position)]
             /\ last' = Last("playlist_add_song", TRUE)
  /\ UNCHANGED << song, lookupVars, treeVars, history, favVars,
                  current_playlist_id, hostVars >>

\* PlaylistEngine.delete_song(index, playlist_id)
PlaylistDeleteSong(index, playlist_id) ==
  /\ LET target == get_target_playlist(playlists, current_playlist_id, playlist_id)
     IN IF ~target_is_true(playlists, target)
        THEN /\ last' = Last("playlist_delete_song", FALSE)
             /\ UNCHANGED playlists
        ELSE LET r == playlist_remove_song(playlists[target], index)
             IN /\ playlists' = [playlists EXCEPT ![target] = r.songs]
                /\ last' = [Last("playlist_delete_song", r.item # None)
                              EXCEPT !.item = r.item]
  /\ UNCHANGED << song, lookupVars, treeVars, history, favVars,
                  current_playlist_id, hostVars >>

\* PlaylistEngine.move_song(from_idx, to_idx, playlist_id)
PlaylistMoveSong(from_idx, to_idx, playlist_id) ==
  /\ LET target == get_target_playlist(playlists, current_playlist_id, playlist_id)
     IN IF ~target_is_true(playlists, target)
        THEN /\ last' = Last("playlist_move_song", FALSE)
             /\ UNCHANGED playlists
        ELSE LET r == playlist_move_song(playlists[target], from_idx, to_idx)
             IN /\ playlists' = [playlists EXCEPT ![target] = r.songs]
                /\ last' = Last("playlist_move_song", r.ret)
  /\ UNCHANGED << song, lookupVars, treeVars, history, favVars,
                  current_playlist_id, hostVars >>

\* PlaylistEngine.reverse_playlist(playlist_id)
ReversePlaylist(playlist_id) ==
  /\ LET target == get_target_playlist(playlists, current_playlist_id, playlist_id)
     IN IF ~target_is_true(playlists, target)
        THEN /\ last' = Last("reverse_playlist", FALSE)
             /\ UNCHANGED playlists
        ELSE /\ playlists' = [playlists EXCEPT ![target] = Reverse(@)]
             /\ last' = Last("reverse_playlist", TRUE)
  /\ UNCHANGED << song, lookupVars, treeVars, history, favVars,
                  current_playlist_id, hostVars >>

\* PlaylistEngine.clear_playlist(playlist_id)
ClearPlaylist(playlist_id) ==
  /\ LET target == get_target_playlist(playlists, current_playlist_id, playlist_id)
     IN IF ~target_is_true(playlists, target)
        THEN /\ last' = Last("clear_playlist", FALSE)
             /\ UNCHANGED playlists
        ELSE /\ playlists' = [playlists EXCEPT ![target] = <<>>]
             /\ last' = Last("clear_playlist", TRUE)
  /\ UNCHANGED << song, lookupVars, treeVars, history, favVars,
                  current_playlist_id, hostVars >>

\* PlaylistEngine.get_songs(playlist_id): the list returned
GetSongs(playlist_id) ==
  /\ LET songs == get_songs(playlists, current_playlist_id, playlist_id)
     IN last' = [Last("get_songs", songs # <<>>) EXCEPT !.top = songs]
  /\ UNCHANGED << song, lookupVars, treeVars, history, favVars, playlistVars,
                  hostVars >>

\* PlayWiseEngine.get_playlist_info(playlist_id), as GET /playlists/{id} calls
\* it: the id and the songs of the dict returned, or None and not found
GetPlaylistInfo(playlist_id) ==
  /\ LET playlist == get_playlist_info(playlists, current_playlist_id, playlist_id)
     IN last' = IF playlist = None THEN Last("get_playlist_info", FALSE)
                ELSE [Last("get_playlist_info", TRUE)
                        EXCEPT !.top = playlists[playlist], !.item = playlist]
  /\ UNCHANGED << song, lookupVars, treeVars, history, favVars, playlistVars,
                  hostVars >>

\* AutoCleaner.set_duplicate_strategy
SetDuplicateStrategy(strategy) ==
  /\ IF strategy \in Strategies
     THEN /\ current_strategy' = strategy
          /\ last' = Last("set_duplicate_strategy", TRUE)
     ELSE /\ current_strategy' = current_strategy
          /\ last' = Last("set_duplicate_strategy", FALSE)
  /\ UNCHANGED << song, lookupVars, treeVars, history, favVars, playlistVars,
                  serverVars, sort_calls >>

\* AutoCleaner.clean_playlist_duplicates(songs, keep_highest_rated) on the songs
\* of a playlist
CleanPlaylistDuplicates(playlist_id, keep_highest_rated) ==
  /\ last' = [ Last("clean_playlist_duplicates", TRUE) EXCEPT !.top =
                 clean_playlist_duplicates(song, current_strategy,
                    get_songs(playlists, current_playlist_id, playlist_id),
                    keep_highest_rated) ]
  /\ UNCHANGED << song, lookupVars, treeVars, history, favVars, playlistVars,
                  hostVars >>

\* AutoCleaner.remove_duplicates(songs) on the songs of a playlist
RemoveDuplicates(playlist_id) ==
  /\ last' = [ Last("remove_duplicates", TRUE) EXCEPT !.top =
                 remove_duplicates(song, current_strategy,
                    get_songs(playlists, current_playlist_id, playlist_id)) ]
  /\ UNCHANGED << song, lookupVars, treeVars, history, favVars, playlistVars,
                  hostVars >>

\* PlayWiseEngine.clean_duplicates(playlist_id, strategy)
CleanDuplicates(playlist_id, strategy) ==
  LET songs == get_songs(playlists, current_playlist_id, playlist_id)
      target == get_target_playlist(playlists, current_playlist_id, playlist_id)
      used == IF strategy \in Strategies THEN strategy ELSE current_strategy
      cleaned_songs == clean_playlist_duplicates(song, used, songs, TRUE)
  IN IF songs = <<>>
     THEN /\ last' = Last("clean_duplicates", FALSE)
          /\ UNCHANGED << song, lookupVars, treeVars, history, favVars,
                          playlistVars, hostVars >>
     ELSE /\ current_strategy' = used
          /\ playlists' = [playlists EXCEPT
                             ![target] = playlist_refill(<<>>, cleaned_songs)]
          \* .top is cleaned_songs, whose length is reported as total_songs;
          \* .item is the reported duplicates_removed: len(songs) -
          \* len(cleaned_songs), where songs is the playlist's own list, read
          \* after the playlist was cleared and refilled
          /\ last' = [Last("clean_duplicates", TRUE) EXCEPT
                        !.top = cleaned_songs,
                        !.item = Len(playlists'[target]) - Len(cleaned_songs)]
          /\ UNCHANGED << song, lookupVars, treeVars, history, favVars,
                          current_playlist_id, serverVars, sort_calls >>

\* ------------------------------------------------- the sorter, called directly
SortCallsTotal == sort_calls["merge"] + sort_calls["quick"] + sort_calls["builtin"]

\* PlaylistSorter.sort_by_<criteria>(songs, reverse, algorithm) on the songs of
\* the current playlist
SortBy(criteria, reverse, algorithm) ==
  /\ SortCallsTotal < MaxSortCalls
  /\ last' = [ Last("sort_by", TRUE) EXCEPT !.top =
                 sort_with_algorithm(criteria, song,
                    get_songs(playlists, current_playlist_id, None),
                    reverse, algorithm) ]
  /\ sort_calls' = calls_after_sort(sort_calls, algorithm)
  /\ UNCHANGED << song, lookupVars, treeVars, history, favVars, playlistVars,
                  serverVars, current_strategy >>

\* PlaylistSorter.sort_by_multiple_criteria(songs, criteria_list) on the songs
\* of the current playlist
SortByMultiple(criteria_list) ==
  /\ last' = [ Last("sort_by_multiple_criteria", TRUE) EXCEPT !.top =
                 sort_by_multiple_criteria(criteria_list, song,
                    get_songs(playlists, current_playlist_id, None)) ]
  /\ UNCHANGED << song, lookupVars, treeVars, history, favVars, playlistVars,
                  hostVars >>

\* PlaylistSorter.reset_stats
ResetStats ==
  /\ sort_calls' = [a \in SortAlgorithms |-> 0]
  /\ last' = Last("reset_stats", TRUE)
  /\ UNCHANGED << song, lookupVars, treeVars, history, favVars, playlistVars,
                  serverVars, current_strategy >>

\* PlayWiseEngine.sort_playlist(criteria, reverse, algorithm, playlist_id)
SortPlaylist(criteria, reverse, algorithm, playlist_id) ==
  LET songs == get_songs(playlists, current_playlist_id, playlist_id)
      target == get_target_playlist(playlists, current_playlist_id, playlist_id)
  IN IF songs = <<>> \/ criteria \notin SortCriteria
     THEN /\ last' = Last("sort_playlist", FALSE)
          /\ UNCHANGED << song, lookupVars, treeVars, history, favVars,
                          playlistVars, hostVars >>
     ELSE /\ SortCallsTotal < MaxSortCalls
          /\ playlists' = [playlists EXCEPT ![target] =
                playlist_refill(<<>>, sort_with_algorithm(criteria, song, songs,
                                                          reverse, algorithm))]
          /\ sort_calls' = calls_after_sort(sort_calls, algorithm)
          /\ last' = Last("sort_playlist", TRUE)
          /\ UNCHANGED << song, lookupVars, treeVars, history, favVars,
                          current_playlist_id, serverVars, current_strategy >>

\* ----------------------------------- AutoCleaner.merge_duplicate_metadata
RECURSIVE sum_of(_, _, _)
sum_of(sg, field, ids) ==
  IF ids = <<>> THEN 0
  ELSE (IF field = "play_count" THEN sg[Head(ids)].play_count
                                ELSE sg[Head(ids)].listen_time)
       + sum_of(sg, field, Tail(ids))

RECURSIVE sum_of_ratings(_, _)
sum_of_ratings(sg, ids) ==
  IF ids = <<>> THEN 0 ELSE sg[Head(ids)].rating + sum_of_ratings(sg, Tail(ids))

\* max([original.rating] + [d.rating for d in duplicates])
highest_rating(sg, original, duplicates) ==
  LET held == { sg[original].rating } \cup { sg[duplicates[i]].rating : i \in 1..Len(duplicates) }
  IN CHOOSE r \in held : \A q \in held : q <= r

\* (variant: the ratings are added up as the play counts are)
merge_adds_ratings(sg, original, duplicates) ==
  [sg EXCEPT ![original].play_count = @ + sum_of(sg, "play_count", duplicates),
             ![original].listen_time = @ + sum_of(sg, "listen_time", duplicates),
             ![original].rating = @ + sum_of_ratings(sg, duplicates)]

\* merge_duplicate_metadata(original, duplicates): the songs after it
merge_duplicate_metadata(sg, original, duplicates) ==
  [sg EXCEPT ![original].play_count = @ + sum_of(sg, "play_count", duplicates),
             ![original].listen_time = @ + sum_of(sg, "listen_time", duplicates),
             ![original].rating = highest_rating(sg, original, duplicates)]

\* AutoCleaner.merge_duplicate_metadata(original, duplicates), called with
\* songs of the store
MergeDuplicateMetadata(original, duplicates) ==
  /\ original \in DOMAIN song
  /\ \A i \in 1..Len(duplicates) : duplicates[i] \in DOMAIN song
  /\ song[original].play_count + sum_of(song, "play_count", duplicates) <= MaxMerged
  /\ song[original].listen_time + sum_of(song, "listen_time", duplicates) <= MaxMerged
  /\ song' = merge_duplicate_metadata(song, original, duplicates)
  /\ last' = [Last("merge_duplicate_metadata", TRUE) EXCEPT !.item = original]
  /\ UNCHANGED << lookupVars, treeVars, history, favVars, playlistVars, hostVars >>

\* ---------------------------------------------------------- SystemSnapshot
\* (the snapshot is modelled by its timestamp and by the counts of its
\* system_overview and playback_insights sections; the lists of songs, the
\* averages and the system_health section are left out)

\* sum(len(playlist.songs) for playlist in playlists.values())
RECURSIVE playlist_songs_total(_, _)
playlist_songs_total(pls, ids) ==
  IF ids = {} THEN 0
  ELSE LET p == CHOOSE x \in ids : TRUE
       IN Len(pls[p]) + playlist_songs_total(pls, ids \ {p})

\* the dict that generate_snapshot builds at current_time from the components
snapshot_at(current_time, pls, by_id, hist) ==
  [ timestamp |-> current_time,
    total_songs |-> Max(playlist_songs_total(pls, DOMAIN pls), Cardinality(by_id)),
    total_playlists |-> Cardinality(DOMAIN pls),
    total_plays |-> Len(hist) ]

\* (variant: the age is the whole difference of the two times)
timedelta_total_seconds(d) == d

\* (current_time - last_snapshot_time).seconds for two times d >= 0 seconds
\* apart: a timedelta holds days and seconds apart, and .seconds is the
\* seconds within the last day
timedelta_seconds(d) == d % SecondsPerDay

\* (variant: the cache is never taken)
cache_is_valid_never(use_cache, snap, snap_time, current_time) == FALSE

\* the cache test of generate_snapshot
cache_is_valid(use_cache, snap, snap_time, current_time) ==
  /\ use_cache
  /\ snap # <<>>
  /\ snap_time # None
  /\ timedelta_seconds(current_time - snap_time) < cache_duration

\* the passing of d seconds (the clock is followed through the first
\* MaxSecondsOfDay seconds of each of its days)
Tick(d) ==
  /\ (clock + d) \div SecondsPerDay <= MaxDays
  /\ (clock + d) % SecondsPerDay <= MaxSecondsOfDay
  /\ clock' = clock + d
  /\ UNCHANGED << song, lookupVars, treeVars, history, favVars, playlistVars,
                  hist_max_size, max_size, loop, last_snapshot,
                  last_snapshot_time, toolVars, last >>

\* PlayWiseEngine.get_dashboard_data: SystemSnapshot.generate_snapshot()
GetDashboardData ==
  /\ IF cache_is_valid(TRUE, last_snapshot, last_snapshot_time, clock)
     THEN /\ last' = [Last("get_dashboard_data", TRUE) EXCEPT !.top = last_snapshot]
          /\ UNCHANGED << last_snapshot, last_snapshot_time >>
     ELSE LET snapshot == snapshot_at(clock, playlists, songs_by_id, history)
          IN /\ last_snapshot' = << snapshot >>
             /\ last_snapshot_time' = clock
             /\ last' = [Last("get_dashboard_data", TRUE) EXCEPT !.top = << snapshot >>]
  /\ UNCHANGED << song, lookupVars, treeVars, history, favVars, playlistVars,
                  hist_max_size, max_size, loop, clock, toolVars >>

\* SystemSnapshot.clear_cache
ClearCache ==
  /\ last_snapshot' = <<>>
  /\ last_snapshot_time' = None
  /\ last' = Last("clear_cache", TRUE)
  /\ UNCHANGED << song, lookupVars, treeVars, history, favVars, playlistVars,
                  hist_max_size, max_size, loop, clock, toolVars >>

\* ------------------------------------------- the API's handlers, step by step
\* variant: the loop takes up a request between two statements of a handler
handler_may_start_mid_handler(l) == TRUE

\* Every handler is an `async def` whose body holds no await, and one event
\* loop serves the one engine: the loop takes up a request only when the
\* handler on it has returned.
handler_may_start(l) == l = Idle

engineState == << song, lookupVars, treeVars, history, favVars, playlistVars,
                  hist_max_size, max_size, cacheVars, toolVars >>

\* the loop enters the handler of a mutating request (one such request at a
\* time is followed through its statements)
ApiAccept(op, song_id, arg) ==
  /\ handler_may_start(loop)
  /\ loop = Idle
  /\ loop' = [op |-> op, id |-> song_id, arg |-> arg, old |-> None, pc |-> 1]
  /\ UNCHANGED << engineState, last >>

\* api.delete_song, a statement at a time
ApiDeleteSongStep ==
  /\ loop.op = "delete_song"
  /\ \/ /\ loop.pc = 1
        /\ get_song(songs_by_id, loop.id) = None
        /\ last' = Last("delete_song", FALSE)
        /\ loop' = Idle
        /\ UNCHANGED engineState
     \/ /\ loop.pc = 1
        /\ get_song(songs_by_id, loop.id) # None
        /\ SetLookup(lookup_remove_song(Lookup, song, loop.id).L)
        /\ loop' = [loop EXCEPT !.pc = 2]
        /\ UNCHANGED << song, treeVars, history, favVars, playlistVars,
                        hist_max_size, max_size, cacheVars, toolVars, last >>
     \/ /\ loop.pc = 2
        /\ SetTree(tree_delete_song(RatingTree, loop.id).T)
        /\ loop' = [loop EXCEPT !.pc = 3]
        /\ UNCHANGED << song, lookupVars, history, favVars, playlistVars,
                        hist_max_size, max_size, cacheVars, toolVars, last >>
     \/ /\ loop.pc = 3
        /\ SetFav(fav_remove_song(FavQueue, loop.id).Q)
        /\ last' = Last("delete_song", TRUE)
        /\ loop' = Idle
        /\ UNCHANGED << song, lookupVars, treeVars, history, playlistVars,
                        hist_max_size, max_size, cacheVars, toolVars >>

\* api.rate_song over PlayWiseEngine.rate_song, a statement at a time
ApiRateSongStep ==
  /\ loop.op = "rate_song"
  /\ \/ /\ loop.pc = 1
        /\ get_song(songs_by_id, loop.id) = None
        /\ last' = Last("rate_song", FALSE)
        /\ loop' = Idle
        /\ UNCHANGED engineState
     \/ /\ loop.pc = 1
        /\ get_song(songs_by_id, loop.id) # None
        /\ song' = [song EXCEPT ![loop.id].rating = ClampRating(loop.arg)]
        /\ loop' = [loop EXCEPT !.pc = 2, !.old = song[loop.id].rating]
        /\ UNCHANGED << lookupVars, treeVars, history, favVars, playlistVars,
                        hist_max_size, max_size, cacheVars, toolVars, last >>
     \/ /\ loop.pc = 2
        /\ SetLookup(lookup_update_song(Lookup, song, loop.id).L)
        /\ loop' = [loop EXCEPT !.pc = 3]
        /\ UNCHANGED << song, treeVars, history, favVars, playlistVars,
                        hist_max_size, max_size, cacheVars, toolVars, last >>
     \/ /\ loop.pc = 3
        /\ loop.old = loop.arg
        /\ last' = Last("rate_song", TRUE)
        /\ loop' = Idle
        /\ UNCHANGED engineState
     \/ /\ loop.pc = 3
        /\ loop.old # loop.arg
        /\ SetTree(tree_delete_song(RatingTree, loop.id).T)
        /\ loop' = [loop EXCEPT !.pc = 4]
        /\ UNCHANGED << song, lookupVars, history, favVars, playlistVars,
                        hist_max_size, max_size, cacheVars, toolVars, last >>
     \/ /\ loop.pc = 4
        /\ SetTree(insert_song(RatingTree, song, loop.id, None).T)
        /\ last' = Last("rate_song", TRUE)
        /\ loop' = Idle
        /\ UNCHANGED << song, lookupVars, history, favVars, playlistVars,
                        hist_max_size, max_size, cacheVars, toolVars >>

\* api.play_song: the handler from its first statement to its return
ApiPlaySong(song_id, listen_duration) ==
  /\ handler_may_start(loop)
  /\ PlaySong(song_id, listen_duration)

\* api.get_song (GET /songs/{song_id}): 404, or the song's fields
ApiGetSong(song_id) ==
  /\ handler_may_start(loop)
  /\ last' = [ Last("get_song", get_song(songs_by_id, song_id) # None)
                EXCEPT !.item = get_song(songs_by_id, song_id) ]
  /\ UNCHANGED << engineState, loop >>

\* api.search_songs_by_rating: song.to_dict() of every song in the range
ApiSearchByRating(min_rating, max_rating) ==
  /\ handler_may_start(loop)
  /\ LET res == get_songs_by_rating_range(RatingTree, min_rating, max_rating)
     IN last' = [ Last("search_songs_by_rating", TRUE)
                  EXCEPT !.top = [i \in 1..Len(res) |->
                                    [id |-> res[i], rating |-> song[res[i]].rating]] ]
  /\ UNCHANGED << engineState, loop >>

\* --------------------------------------------------------- specifications
EmptyFn == [x \in {} |-> 0]

Init ==
  /\ song = EmptyFn
  /\ songs_by_id = {}
  /\ songs_by_title = <<>>
  /\ songs_by_artist = <<>>
  /\ all_songs = {}
  /\ root = None
  /\ tree = EmptyFn
  /\ total_songs = 0
  /\ history = <<>>
  /\ hist_max_size = DefaultHistMaxSize
  /\ heap = <<>>
  /\ song_index = EmptyFn
  /\ max_size = DefaultFavMaxSize
  /\ playlists = EmptyFn
  /\ current_playlist_id = None
  /\ loop = Idle
  /\ current_strategy = DefaultStrategy
  /\ sort_calls = [a \in SortAlgorithms |-> 0]
  /\ clock = 0
  /\ last_snapshot = <<>>
  /\ last_snapshot_time = None
  /\ last = Last("init", TRUE)

\* The engine behind its facade: creations, plays, ratings and deletions.
Next ==
  \/ \E t \in Titles, a \in Artists, d \in Durations, r \in RatingInputs :
       CreateSong(t, a, d, r)
  \/ \E s \in Ids, d \in ListenInputs : PlaySong(s, d)
  \/ \E s \in Ids, r \in RatingInputs : RateSong(s, r)
  \/ \E s \in Ids : ApiDeleteSong(s)

Spec == Init /\ [][Next]_vars

\* The store under field updates: creations, inserts under an id already
\* stored, PUT updates of title and artist, and deletions.
NextUpdate ==
  \/ \E t \in Titles, a \in Artists, d \in Durations : CreateSong(t, a, d, MaxRating)
  \/ \E s \in Ids, t \in Titles, a \in Artists, d \in Durations :
       LookupAddDuplicate(s, t, a, d)
  \/ \E s \in Ids, t \in Titles \cup {NoneStr}, a \in Artists \cup {NoneStr} :
       ApiUpdateSong(s, t, a, None, None)
  \/ \E s \in Ids : ApiDeleteSong(s)

SpecUpdate == Init /\ [][NextUpdate]_vars

\* The rating tree under every rating: creations of like-named songs at any
\* rating, re-ratings to any rating, and deletions.
TreeRatings == (MinRating..MaxRating) \ {1}

NextTree ==
  \/ \E r \in TreeRatings : CreateSong(<<"a", "b">>, <<"X">>, 180, r)
  \/ \E s \in Ids, r \in TreeRatings : RateSong(s, r)
  \/ \E s \in Ids : ApiDeleteSong(s)

SpecTree == Init /\ [][NextTree]_vars

\* The rating tree under creations, re-ratings and deletions made on the tree
\* itself, of ids it holds and of ids it does not hold.
NextTreeDelete ==
  \/ \E r \in TreeRatings : CreateSong(<<"a", "b">>, <<"X">>, 180, r)
  \/ \E s \in Ids, r \in TreeRatings : RateSong(s, r)
  \/ \E s \in Ids : TreeDeleteSong(s)

SpecTreeDelete == Init /\ [][NextTreeDelete]_vars

\* The store with its playback history and playlists: creations at one rating,
\* plays, ratings at that rating, undos, playlist edits and deletions.
NextPlaylists ==
  \/ \E t \in Titles, a \in Artists, d \in Durations : CreateSong(t, a, d, MaxRating)
  \/ \E s \in Ids, d \in ListenInputs : PlaySong(s, d)
  \/ \E s \in Ids : RateSong(s, MaxRating)
  \/ \E s \in Ids : ApiDeleteSong(s)
  \/ UndoLastPlay
  \/ CreatePlaylist
  \/ \E s \in Ids, p \in (1..MaxPlaylists) \cup {None}, pos \in {-1, 0} :
       AddSongToPlaylist(s, p, pos)
  \/ \E s \in Ids, p \in 1..MaxPlaylists :
       /\ p \in DOMAIN playlists
       /\ Len(playlists[p]) < MaxPlaylistLen
       /\ PlaylistObjectAddSong(s, -1, p)

SpecPlaylists == Init /\ [][NextPlaylists]_vars

\* A favorites queue of a small capacity over songs the engine has created;
\* the queue is driven directly (add, update, remove, top-K) and by plays.
FavIds == 1..MaxFavSongs
FavListenInputs == {None} \cup (0..MaxListen)

RECURSIVE CreatedStore(_)
CreatedStore(n) ==
  IF n = 0
  THEN [ song |-> EmptyFn,
         L |-> [by_id |-> {}, by_title |-> <<>>, by_artist |-> <<>>, all |-> {}],
         T |-> [root |-> None, tree |-> EmptyFn, total |-> 0] ]
  ELSE LET St == create_song(CreatedStore(n - 1), <<"A", " ">>, <<"X">>, 180, 1)
       IN [song |-> St.song, L |-> St.L, T |-> St.T]

InitFav ==
  LET St == CreatedStore(MaxFavSongs)
  IN /\ song = St.song
     /\ songs_by_id = St.L.by_id
     /\ songs_by_title = St.L.by_title
     /\ songs_by_artist = St.L.by_artist
     /\ all_songs = St.L.all
     /\ root = St.T.root
     /\ tree = St.T.tree
     /\ total_songs = St.T.total
     /\ history = <<>>
     /\ hist_max_size = 1
     /\ heap = <<>>
     /\ song_index = EmptyFn
     /\ max_size \in 1..MaxCap
     /\ playlists = EmptyFn
     /\ current_playlist_id = None
     /\ loop = Idle
     /\ current_strategy = DefaultStrategy
     /\ sort_calls = [a \in SortAlgorithms |-> 0]
     /\ clock = 0
     /\ last_snapshot = <<>>
     /\ last_snapshot_time = None
     /\ last = Last("init", TRUE)

NextFav ==
  \/ \E s \in FavIds, lt \in FavListenInputs : FavAddSong(s, lt)
  \/ \E s \in FavIds, t \in 0..MaxListen : FavUpdateListenTime(s, t)
  \/ \E s \in FavIds : FavRemoveSong(s)
  \/ \E k \in {1, MaxCap} : GetTopSongs(k)
  \/ \E s \in FavIds, d \in ListenInputs : PlaySong(s, d)

SpecFav == InitFav /\ [][NextFav]_vars

\* The same store and queue driven by play_song alone, each song played up to
\* MaxReplays times, with top-K reads.
NextFavPlays ==
  \/ \E s \in FavIds, d \in ListenInputs : ReplaySong(s, d)
  \/ \E k \in {1, MaxCap} : GetTopSongs(k)

SpecFavPlays == InitFav /\ [][NextFavPlays]_vars

\* Distinct tracks offered to the queue, each once, with a positive listen time.
OfferNewSong(s, lt) ==
  /\ song[s].listen_time = 0
  /\ s \notin DOMAIN song_index
  /\ FavAddSong(s, lt)

NextFavAdds == \E s \in FavIds, lt \in 1..MaxListen : OfferNewSong(s, lt)

SpecFavAdds == InitFav /\ [][NextFavAdds]_vars

\* The API over an engine that holds MaxSongs songs: deletions and re-ratings
\* a statement at a time, plays, and reads by id and by rating.
InitApi ==
  LET St == CreatedStore(MaxSongs)
  IN /\ song = St.song
     /\ songs_by_id = St.L.by_id
     /\ songs_by_title = St.L.by_title
     /\ songs_by_artist = St.L.by_artist
     /\ all_songs = St.L.all
     /\ root = St.T.root
     /\ tree = St.T.tree
     /\ total_songs = St.T.total
     /\ history = <<>>
     /\ hist_max_size = DefaultHistMaxSize
     /\ heap = <<>>
     /\ song_index = EmptyFn
     /\ max_size = DefaultFavMaxSize
     /\ playlists = EmptyFn
     /\ current_playlist_id = None
     /\ loop = Idle
     /\ current_strategy = DefaultStrategy
     /\ sort_calls = [a \in SortAlgorithms |-> 0]
     /\ clock = 0
     /\ last_snapshot = <<>>
     /\ last_snapshot_time = None
     /\ last = Last("init", TRUE)

ApiRatings == {MinRating, MaxRating}

NextApi ==
  \/ \E s \in Ids : ApiAccept("delete_song", s, None)
  \/ \E s \in Ids, r \in ApiRatings : ApiAccept("rate_song", s, r)
  \/ ApiDeleteSongStep
  \/ ApiRateSongStep
  \/ \E s \in Ids, d \in ListenInputs : ApiPlaySong(s, d)
  \/ \E s \in Ids : ApiGetSong(s)
  \/ \E a, b \in ApiRatings : ApiSearchByRating(a, b)

SpecApi == InitApi /\ [][NextApi]_vars

\* A playback history of a small capacity over songs the engine has created:
\* plays recorded directly, undos, ratings and playlist additions.
InitHistory ==
  LET St == CreatedStore(MaxSongs)
  IN /\ song = St.song
     /\ songs_by_id = St.L.by_id
     /\ songs_by_title = St.L.by_title
     /\ songs_by_artist = St.L.by_artist
     /\ all_songs = St.L.all
     /\ root = St.T.root
     /\ tree = St.T.tree
     /\ total_songs = St.T.total
     /\ history = <<>>
     /\ hist_max_size \in 1..MaxHistCap
     /\ heap = <<>>
     /\ song_index = EmptyFn
     /\ max_size = DefaultFavMaxSize
     /\ playlists = EmptyFn
     /\ current_playlist_id = None
     /\ loop = Idle
     /\ current_strategy = DefaultStrategy
     /\ sort_calls = [a \in SortAlgorithms |-> 0]
     /\ clock = 0
     /\ last_snapshot = <<>>
     /\ last_snapshot_time = None
     /\ last = Last("init", TRUE)

NextHistory ==
  \/ \E s \in Ids : RecordPlay(s)
  \/ \E s \in Ids, d \in ListenInputs : PlaySong(s, d)
  \/ UndoLastPlay
  \/ \E s \in Ids : RateSong(s, MaxRating)
  \/ CreatePlaylist
  \/ \E s \in Ids, p \in (1..MaxPlaylists) \cup {None}, pos \in {-1, 0} :
       AddSongToPlaylist(s, p, pos)
  \/ \E s \in Ids, p \in 1..MaxPlaylists :
       /\ p \in DOMAIN playlists
       /\ Len(playlists[p]) < MaxPlaylistLen
       /\ PlaylistObjectAddSong(s, -1, p)

SpecHistory == InitHistory /\ [][NextHistory]_vars

\* The cleaner over one playlist of an engine that holds four songs: two that
\* differ in case, spacing, duration and rating, a third with the fields of the
\* first, and a fourth by another artist.
CleanerStore ==
  LET E == [ song |-> EmptyFn,
             L |-> [by_id |-> {}, by_title |-> <<>>, by_artist |-> <<>>, all |-> {}],
             T |-> [root |-> None, tree |-> EmptyFn, total |-> 0] ]
      S1 == create_song(E, <<"A", " ">>, <<"X">>, 180, 2)
      S2 == create_song([song |-> S1.song, L |-> S1.L, T |-> S1.T],
                        <<"a">>, <<"x">>, 200, 5)
      S3 == create_song([song |-> S2.song, L |-> S2.L, T |-> S2.T],
                        <<"A", " ">>, <<"X">>, 180, 2)
  IN create_song([song |-> S3.song, L |-> S3.L, T |-> S3.T],
                 <<"a">>, <<"y">>, 180, 2)

InitWithPlaylist(St) ==
  /\ song = St.song
  /\ songs_by_id = St.L.by_id
  /\ songs_by_title = St.L.by_title
  /\ songs_by_artist = St.L.by_artist
  /\ all_songs = St.L.all
  /\ root = St.T.root
  /\ tree = St.T.tree
  /\ total_songs = St.T.total
  /\ history = <<>>
  /\ hist_max_size = DefaultHistMaxSize
  /\ heap = <<>>
  /\ song_index = EmptyFn
  /\ max_size = DefaultFavMaxSize
  /\ playlists = (1 :> <<>>)
  /\ current_playlist_id = 1
  /\ loop = Idle
  /\ current_strategy = DefaultStrategy
  /\ sort_calls = [a \in SortAlgorithms |-> 0]
  /\ clock = 0
  /\ last_snapshot = <<>>
  /\ last_snapshot_time = None
  /\ last = Last("init", TRUE)

InitCleaner == InitWithPlaylist(CleanerStore)

StrategyInputs == Strategies \cup { "artist" }

NextCleaner ==
  \/ \E s \in DOMAIN song : IncrementPlayCount(s)
  \/ \E s \in DOMAIN song : PlaylistObjectAddSong(s, -1, 1)
  \/ \E g \in StrategyInputs : SetDuplicateStrategy(g)
  \/ \E keep \in BOOLEAN : CleanPlaylistDuplicates(None, keep)
  \/ RemoveDuplicates(None)
  \/ \E g \in StrategyInputs : CleanDuplicates(None, g)

SpecCleaner == InitCleaner /\ [][NextCleaner]_vars

\* The sorter over one playlist of the same four songs, whose titles, artists,
\* durations and ratings hold equal and unequal keys.
InitSorter == InitWithPlaylist(CleanerStore)

AlgorithmInputs == SortAlgorithms \cup { "heap" }
CriteriaInputs == SortCriteria \cup { "name" }
By(criteria, reverse) == [criteria |-> criteria, reverse |-> reverse]
CriteriaLists ==
  { <<>>,
    << By("rating", TRUE) >>,
    << By("rating", TRUE), By("title", FALSE) >>,
    << By("rating", FALSE), By("title", TRUE) >>,
    << By("artist", TRUE), By("duration", TRUE) >>,
    << By("duration", FALSE), By("artist", FALSE) >>,
    << By("title", TRUE) >> }

NextSorter ==
  \/ \E s \in DOMAIN song : PlaylistObjectAddSong(s, -1, 1)
  \/ \E c \in SortCriteria, r \in BOOLEAN, a \in AlgorithmInputs : SortBy(c, r, a)
  \/ \E cl \in CriteriaLists : SortByMultiple(cl)
  \/ ResetStats
  \/ \E c \in CriteriaInputs, r \in BOOLEAN, a \in SortAlgorithms :
       SortPlaylist(c, r, a, None)

SpecSorter == InitSorter /\ [][NextSorter]_vars

\* The playlists of the engine created, made current and deleted, and read and
\* edited under the ids of playlists that exist, of playlists that do not, and
\* under no id; the first playlist exists from the start and two songs go
\* into the playlists.
InitManaged == InitWithPlaylist(CleanerStore)

PlaylistIdInputs == 1..(MaxManaged + 1)
PlaylistIdOrNone == PlaylistIdInputs \cup { None }
ManagedSongs == { 1, 2 }

\* an operation of the engine that takes a playlist id, called with playlist_id
OperationOn(playlist_id) ==
  \/ \E s \in ManagedSongs, pos \in {-1, 0} : PlaylistAddSong(s, pos, playlist_id)
  \/ PlaylistDeleteSong(0, playlist_id)
  \/ PlaylistMoveSong(0, 1, playlist_id)
  \/ ReversePlaylist(playlist_id)
  \/ ClearPlaylist(playlist_id)
  \/ GetSongs(playlist_id)

NextManaged ==
  \/ create_playlist(MaxManaged)
  \/ \E p \in PlaylistIdInputs : SetCurrentPlaylist(p)
  \/ \E p \in PlaylistIdInputs : DeletePlaylist(p)
  \/ \E s \in ManagedSongs, p \in PlaylistIdInputs :
       /\ p \in DOMAIN playlists
       /\ Len(playlists[p]) < MaxPlaylistLen
       /\ PlaylistObjectAddSong(s, -1, p)
  \/ \E p \in PlaylistIdOrNone : OperationOn(p)
  \/ \E p \in PlaylistIdOrNone : GetPlaylistInfo(p)

SpecManaged == InitManaged /\ [][NextManaged]_vars

\* One playlist edited by position: insertions, removals and moves at indices
\* inside and outside the list.
InitPlaylistEdit == InitWithPlaylist(CleanerStore)

PositionInputs == { -3, -1, 0, 1, 2, MaxEditLen + 2 }
IndexInputs == (-1)..MaxEditLen

NextPlaylistEdit ==
  \/ \E s \in DOMAIN song, pos \in PositionInputs : PlaylistAddSong(s, pos, None)
  \/ \E s \in DOMAIN song, pos \in PositionInputs : PlaylistObjectAddSong(s, pos, 1)
  \/ \E i \in IndexInputs : PlaylistDeleteSong(i, None)
  \/ \E i, j \in IndexInputs : PlaylistMoveSong(i, j, None)

SpecPlaylistEdit == InitPlaylistEdit /\ [][NextPlaylistEdit]_vars

\* The dashboard read against a store that grows and is played while the clock
\* runs: reads inside the window, at its end, hours and days after the
\* cached snapshot.
ElapsedInputs == { 30, 60, SecondsPerDay }

NextSnapshot ==
  \/ \E t \in Titles, a \in Artists, d \in Durations : CreateSong(t, a, d, MaxRating)
  \/ \E s \in Ids : PlaySong(s, None)
  \/ CreatePlaylist
  \/ \E d \in ElapsedInputs : Tick(d)
  \/ GetDashboardData
  \/ ClearCache

SpecSnapshot == Init /\ [][NextSnapshot]_vars

\* Ratings asked for below and above 0..5 at creation and by rate_song, a
\* rating the API's schema lets through on update, play counts, merges of a
\* song with up to two others, and deletions.
RatingRequests == { -1, 7 }
ApiRatingRequests == { None, 4 }
DuplicateLists == { <<>> } \cup { << a >> : a \in Ids } \cup { << a, b >> : a, b \in Ids }

NextRatings ==
  \/ \E r \in RatingRequests : CreateSong(<<"a", "b">>, <<"X">>, 180, r)
  \/ \E s \in Ids, r \in RatingRequests : RateSong(s, r)
  \/ \E s \in Ids, r \in ApiRatingRequests : ApiUpdateSong(s, NoneStr, NoneStr, None, r)
  \/ \E s \in DOMAIN song : IncrementPlayCount(s)
  \/ \E s \in Ids, dl \in DuplicateLists : MergeDuplicateMetadata(s, dl)
  \/ \E s \in Ids : ApiDeleteSong(s)

SpecRatings == Init /\ [][NextRatings]_vars

\* ===================================================== favorites properties
HeapIds(h) == { h[i].song : i \in 1..Len(h) }
HeapItems(h) == { h[i] : i \in 1..Len(h) }
MinStoredListen(h) ==
  CHOOSE m \in { -h[i].priority : i \in 1..Len(h) } :
    \A i \in 1..Len(h) : m <= -h[i].priority
TopK(k) == get_top_songs(heap, song, k).top

\* C5: an add of an untracked track to a full queue is decided against the
\* minimum listen time in the queue: a larger newcomer replaces that minimum
\* entry and the add returns true; otherwise the add returns false and the
\* entries stay as they were.
C5_FullAddDecidedAgainstMinimum ==
  [][ \A s \in FavIds, lt \in FavListenInputs :
        ( /\ s \notin DOMAIN song_index
          /\ is_full(heap, max_size)
          /\ FavAddSong(s, lt) )
        => LET pv == IF lt # None THEN lt ELSE song[s].listen_time
               lo == MinStoredListen(heap)
           IN IF pv > lo
              THEN /\ last'.ret = TRUE
                   /\ \E i \in 1..Len(heap) :
                        /\ -heap[i].priority = lo
                        /\ HeapItems(heap') =
                             (HeapItems(heap) \ {heap[i]})
                               \cup {FavoriteItem(song', s, pv)}
              ELSE /\ last'.ret = FALSE
                   /\ HeapItems(heap') = HeapItems(heap)
    ]_vars

\* C6: after distinct tracks were offered, topK(capacity) holds the
\* capacity-many highest listen times offered so far (all offered tracks when
\* there were no more than capacity of them).
C6_TopKHoldsHighestOffered ==
  LET top == TopK(max_size)
      ids == { top[i].song.id : i \in 1..Len(top) }
      offered == { s \in DOMAIN song : song[s].listen_time > 0 }
  IN /\ Cardinality(offered) <= max_size => offered \subseteq ids
     /\ Cardinality(offered) >= max_size => Len(top) = max_size
     /\ \A s \in offered \ ids :
          \A i \in 1..Len(top) : top[i].priority_score >= song[s].listen_time

\* C7: the favorites heap never holds more entries than its capacity.
C7_HeapWithinCapacity == Len(heap) <= max_size

C7_Witness ==
  /\ last.op = "add_song"
  /\ last.ret = FALSE
  /\ Len(heap) = max_size
  /\ \E s \in DOMAIN song \ HeapIds(heap) : song[s].listen_time > 0

\* C8: topK(k) lists min(k, size) entries in non-increasing listen time, and of
\* two entries with the same listen time the track with the higher play count
\* comes first.
C8_TopKOrderedByListenThenPlays ==
  \A k \in 0..(MaxCap + 1) :
    LET top == TopK(k)
    IN /\ Len(top) = Min(k, Len(heap))
       /\ \A i, j \in 1..Len(top) :
            i < j =>
              /\ top[i].song.listen_time >= top[j].song.listen_time
              /\ top[i].song.listen_time = top[j].song.listen_time
                   => top[i].song.play_count >= top[j].song.play_count

\* The order topK does keep: by stored listen time, then by the play count the
\* entry recorded when it was made.
TopKOrderedByStoredKeys ==
  \A k \in 0..(MaxCap + 1) :
    LET top == TopK(k)
    IN /\ Len(top) = Min(k, Len(heap))
       /\ \A i, j \in 1..Len(top) :
            i < j =>
              /\ top[i].listen_time >= top[j].listen_time
              /\ top[i].song.listen_time = top[i].listen_time
              /\ top[i].listen_time = top[j].listen_time
                   => top[i].play_count >= top[j].play_count

\* C9: topK(k) leaves the heap, the stored priorities and the identifier index
\* as they were, and asking again returns the same list.
C9_TopKReadOnly ==
  [][ \A k \in {1, MaxCap} :
        GetTopSongs(k) =>
          /\ heap' = heap
          /\ song_index' = song_index
          /\ TopK(k)' = last'.top
    ]_vars

C9_Witness ==
  /\ last.op = "get_top_songs"
  /\ Len(last.top) >= 2
  /\ Len(heap) >= 2

\* C10: no track has two heap entries and the index's keys are exactly the
\* tracks in the heap; an add of a tracked track does what updateListenTime does
\* and leaves the heap size alone.
NoDuplicateEntries ==
  /\ \A i, j \in 1..Len(heap) : heap[i].song = heap[j].song => i = j
  /\ DOMAIN song_index = HeapIds(heap)

C10_OneEntryPerTrack ==
  /\ []NoDuplicateEntries
  /\ [][ \A s \in FavIds, lt \in FavListenInputs :
           (last'.op = "add_song" /\ s \in DOMAIN song_index /\ FavAddSong(s, lt)) =>
             LET upd == update_listen_time(FavQueue, song, s,
                                           Or(lt, song[s].listen_time))
             IN /\ Len(heap') = Len(heap)
                /\ heap' = upd.Q.heap
                /\ song' = upd.sg
                /\ HeapIds(heap') = HeapIds(heap)
       ]_vars

\* an add that returned true and made no fresh entry: every entry's recorded
\* play count is behind its track's, so the add met a tracked track
C10_Witness ==
  /\ last.op = "add_song"
  /\ last.ret = TRUE
  /\ heap # <<>>
  /\ \A i \in 1..Len(heap) : heap[i].play_count # song[heap[i].song].play_count

\* ========================================================= store properties
Deleted == DOMAIN song \ songs_by_id
TextQueries == Queries \cup Titles \cup Artists
RatingQueries == (MinRating - 1)..(MaxRating + 1)
Limits == 0..(MaxSongs + 1)
RangeQuery(a, b) == get_songs_by_rating_range(RatingTree, a, b)
TopKIds(k) == { TopK(k)[i].song.id : i \in 1..Len(TopK(k)) }

\* t is returned by no identity, text, rating or favorites query
Unfindable(t) ==
  /\ get_song(songs_by_id, t) = None
  /\ \A q \in TextQueries :
       /\ t \notin Range(search_by_title(songs_by_title, q))
       /\ t \notin Range(search_by_artist(songs_by_artist, q))
       /\ t \notin Range(fuzzy_search_title(songs_by_title, q))
       /\ t \notin Range(fuzzy_search_artist(songs_by_artist, q))
  /\ \A a, b \in RatingQueries : t \notin Range(RangeQuery(a, b))
  /\ \A r \in RatingQueries : t \notin Range(search_by_rating(RatingTree, r))
  /\ \A k \in Limits :
       /\ t \notin Range(get_top_rated_songs(RatingTree, k))
       /\ t \notin TopKIds(k)

\* C1: a deleted track is not found by identifier, and no exact or substring
\* title/artist search, rating query or favorites top-K returns it.
C1_DeletedTrackUnfindable == \A t \in Deleted : Unfindable(t)

\* a played, favorited track has been deleted while another track that shares
\* its title key is still stored
C1_Witness ==
  /\ last.op = "delete_song"
  /\ last.ret = TRUE
  /\ \E t \in Deleted :
       /\ song[t].play_count > 0
       /\ \E u \in songs_by_id : NormKey(song[u].title) = NormKey(song[t].title)

\* C2: a deleted track is held by no structure at all: not by the indices, not
\* by the playback history (recentHistory, mostPlayed), not by any playlist.
C2_DeletedTrackHeldNowhere ==
  \A t \in Deleted :
    /\ Unfindable(t)
    /\ t \notin Range(history)
    /\ \A k \in 0..Len(history) :
         /\ t \notin Range(get_recent_history(history, k))
         /\ t \notin Range(get_most_played_songs(history, song, k))
    /\ \A p \in DOMAIN playlists : t \notin Range(playlists[p])

\* C3: a PUT update that changes a track's title or artist key relocates the
\* track: the old key no longer finds it, the new key finds it once, and it
\* sits in one title bucket and one artist bucket.
BucketsHolding(d, s) == { i \in 1..Len(d) : s \in Range(d[i].songs) }

C3_UpdateRelocates ==
  [][ \A s \in Ids, t \in Titles \cup {NoneStr}, a \in Artists \cup {NoneStr} :
        ( /\ s \in songs_by_id
          /\ ApiUpdateSong(s, t, a, None, None)
          /\ \/ NormKey(song'[s].title) # NormKey(song[s].title)
             \/ NormKey(song'[s].artist) # NormKey(song[s].artist) )
        => /\ NormKey(song'[s].title) # NormKey(song[s].title)
                => s \notin Range(search_by_title(songs_by_title', song[s].title))
           /\ NormKey(song'[s].artist) # NormKey(song[s].artist)
                => s \notin Range(search_by_artist(songs_by_artist', song[s].artist))
           /\ Count(search_by_title(songs_by_title', song'[s].title), s) = 1
           /\ Count(search_by_artist(songs_by_artist', song'[s].artist), s) = 1
           /\ Cardinality(BucketsHolding(songs_by_title', s)) = 1
           /\ Cardinality(BucketsHolding(songs_by_artist', s)) = 1
    ]_vars

\* C4: a stored track is in rangeQuery(r, r) for the rating r it was created
\* with, and rate_song(id, r2) with r2 # r in 0..5 takes it out of
\* rangeQuery(r, r) and puts it, once, into rangeQuery(r2, r2).
C4_RatingRoundTrip ==
  [][ /\ \A t \in Titles, a \in Artists, d \in Durations, r \in RatingInputs :
           CreateSong(t, a, d, r) =>
             LET s == Cardinality(DOMAIN song) + 1
             IN /\ song'[s].rating = ClampRating(r)
                /\ Count(get_songs_by_rating_range(RatingTree', ClampRating(r),
                                                   ClampRating(r)), s) = 1
      /\ \A s \in Ids, r2 \in RatingInputs :
           ( /\ s \in songs_by_id
             /\ r2 \in MinRating..MaxRating
             /\ r2 # song[s].rating
             /\ RateSong(s, r2) )
           => /\ s \notin Range(get_songs_by_rating_range(RatingTree', song[s].rating,
                                                           song[s].rating))
              /\ Count(get_songs_by_rating_range(RatingTree', r2, r2), s) = 1
    ]_vars

\* a track has been moved out of the rating node it was created in, which is
\* left empty, with no deletion behind it
C4_Witness ==
  /\ last.op = "rate_song"
  /\ last.ret = TRUE
  /\ Deleted = {}
  /\ \E r \in DOMAIN tree : tree[r].songs = <<>>

\* ======================================================= history properties
HistoryLimits == (-1)..(MaxHistCap + 1)
RECURSIVE PlayCountSum(_)
PlayCountSum(S) ==
  IF S = {} THEN 0
  ELSE LET x == CHOOSE y \in S : TRUE
       IN song[x].play_count + PlayCountSum(S \ {x})
PlaysRecorded == PlayCountSum(DOMAIN song)

\* recentHistory(k) is the min(k, size) newest entries, newest first
RecentIsNewestFirst(k) ==
  LET r == get_recent_history(history, k)
  IN /\ Len(r) = IF k <= 0 THEN 0 ELSE Min(k, Len(history))
     /\ \A i \in 1..Len(r) : r[i] = history[Len(history) + 1 - i]

\* C11: the recency stack never holds more than its capacity; a recorded play
\* at capacity drops the oldest entry and nothing else; recentHistory(k) is
\* the min(k, size) most recent entries, most recent first, empty for k <= 0.
C11_StackBoundedOldestEvicted ==
  /\ [](Len(history) <= hist_max_size /\ \A k \in HistoryLimits : RecentIsNewestFirst(k))
  /\ [][ \A s \in Ids : RecordPlay(s) =>
           history' = Append(IF Len(history) = hist_max_size
                             THEN Tail(history) ELSE history, s)
       ]_vars

\* a play has just been recorded on a full stack of the largest capacity, and
\* more plays were recorded than the stack holds
C11_Witness ==
  /\ last.op = "add_to_history"
  /\ hist_max_size = MaxHistCap
  /\ Len(history) = hist_max_size
  /\ PlaysRecorded > hist_max_size

\* C12: undoLastPlay takes the most recently recorded entry off the stack and
\* returns it, the earlier entries staying in order; on an empty stack it
\* returns None and the stack stays empty.
C12_UndoPopsMostRecent ==
  [][ UndoLastPlay =>
        IF history = <<>>
        THEN last'.item = None /\ history' = <<>>
        ELSE /\ last'.item # None
             /\ Append(history', last'.item) = history
    ]_vars

\* an undo has returned a song and left an older entry of another song behind
C12_Witness ==
  /\ last.op = "undo_last_play"
  /\ last.item # None
  /\ history # <<>>
  /\ history[Len(history)] # last.item

\* C13: a recorded play adds exactly one to the played track's play count and
\* to no other; undoLastPlay changes no play count; no step of plays, undos,
\* ratings and playlist edits lowers a play count.
PlayCounts == [s \in DOMAIN song |-> song[s].play_count]

C13_PlayCountNeverDecreases ==
  [][ /\ \A s \in DOMAIN song : PlayCounts'[s] >= PlayCounts[s]
      /\ \A s \in Ids :
           (RecordPlay(s) \/ \E d \in ListenInputs : s \in songs_by_id /\ PlaySong(s, d))
           => PlayCounts' = [PlayCounts EXCEPT ![s] = @ + 1]
      /\ UndoLastPlay => PlayCounts' = PlayCounts
    ]_vars

\* a track played twice has had its second play undone and keeps both counts
C13_Witness ==
  /\ last.op = "undo_last_play"
  /\ last.item # None
  /\ song[last.item].play_count = MaxHistPlays
  /\ last.item \notin Range(history)

\* ================================================= missing-track properties
engineVars == << song, lookupVars, treeVars, history, favVars, playlistVars, hostVars >>

\* C14: a play, rate, delete or add-to-playlist request that names an id the
\* identity index does not hold reports failure and changes no index, no
\* song, not the history, not the favorites heap and no playlist.
C14_AbsentTrackRequestsChangeNothing ==
  [][ \A s \in Ids :
        ( /\ s \notin songs_by_id
          /\ \/ \E d \in ListenInputs : PlaySong(s, d)
             \/ RateSong(s, MaxRating)
             \/ ApiDeleteSong(s)
             \/ \E p \in (1..MaxPlaylists) \cup {None}, pos \in {-1, 0} :
                  AddSongToPlaylist(s, p, pos) )
        => /\ last'.ret = FALSE
           /\ UNCHANGED engineVars
    ]_vars

\* a request has failed for a track that was played, put on a playlist and then
\* deleted, and the history and the playlist are as the deletion left them
C14_Witness ==
  /\ last.op \in {"play_song", "rate_song", "delete_song", "add_song_to_playlist"}
  /\ last.ret = FALSE
  /\ \E t \in DOMAIN song \ songs_by_id :
       /\ t \in Range(history)
       /\ \E p \in DOMAIN playlists : t \in Range(playlists[p])

\* ======================================================= lookup properties
\* C16: an insert under an id the identity index already holds returns false
\* and leaves the identity, title and artist maps as they were: the song count
\* is the same and lookup(id) is still the song first inserted.
C16_DuplicateInsertRejected ==
  [][ \A s \in Ids, t \in Titles, a \in Artists, d \in Durations :
        LookupAddDuplicate(s, t, a, d)
        => /\ last'.ret = FALSE
           /\ UNCHANGED lookupVars
           /\ Cardinality(songs_by_id') = Cardinality(songs_by_id)
           /\ get_song(songs_by_id', s) = s
           /\ song'[s] = song[s]
    ]_vars

\* an insert has been refused while two songs are stored
C16_Witness ==
  /\ last.op = "lookup_add_song"
  /\ last.ret = FALSE
  /\ Cardinality(songs_by_id) = MaxSongs

\* C17: with titles and artists left as they were at insertion, exact title
\* search on q returns, each once, the stored tracks whose lower-cased,
\* trimmed title equals the lower-cased, trimmed q, and no other; exact
\* artist search likewise.
LowerTrimmed(s) == Strip(Lower(s))

C17_ExactSearchMatchesNormalizedKey ==
  \A q \in TextQueries :
    LET by_t == search_by_title(songs_by_title, q)
        by_a == search_by_artist(songs_by_artist, q)
    IN /\ Range(by_t) = { s \in songs_by_id : LowerTrimmed(song[s].title) = LowerTrimmed(q) }
       /\ Range(by_a) = { s \in songs_by_id : LowerTrimmed(song[s].artist) = LowerTrimmed(q) }
       /\ \A s \in Range(by_t) : Count(by_t, s) = 1
       /\ \A s \in Range(by_a) : Count(by_a, s) = 1

\* a track has been removed from a title bucket it shared, and a query that
\* differs from the title as written in case and spacing finds the track left
C17_Witness ==
  \E t \in DOMAIN song \ songs_by_id, u \in songs_by_id, q \in TextQueries :
    /\ song[t].title = song[u].title
    /\ q # song[u].title
    /\ Lower(q) # Lower(song[u].title)
    /\ q # Lower(q)
    /\ search_by_title(songs_by_title, q) = <<u>>

\* C18: no key of the title map or of the artist map has an empty bucket.
C18_NoEmptyBuckets ==
  /\ \A i \in 1..Len(songs_by_title) : songs_by_title[i].songs # <<>>
  /\ \A i \in 1..Len(songs_by_artist) : songs_by_artist[i].songs # <<>>

\* the removal of the last track under a title key and an artist key has taken
\* both keys out of the maps, which still hold another track
C18_Witness ==
  /\ last.op = "delete_song"
  /\ last.ret = TRUE
  /\ songs_by_title # <<>>
  /\ \E t \in DOMAIN song \ songs_by_id :
       /\ ~DictHas(songs_by_title, NormKey(song[t].title))
       /\ ~DictHas(songs_by_artist, NormKey(song[t].artist))

\* ================================================== rating tree properties
Band(T, r) == search_by_rating(T, r)
Pos(q, x) == CHOOSE i \in 1..Len(q) : q[i] = x

\* the bands from rating r down to rating 0, one after the other
RECURSIVE BandsFrom(_, _)
BandsFrom(T, r) == IF r < MinRating THEN <<>> ELSE Band(T, r) \o BandsFrom(T, r - 1)

FirstK(q, k) == [i \in 1..Min(k, Len(q)) |-> q[i]]

\* within a band, tracks that stay keep their order and a track that comes in
\* goes behind them
BandKeepsInsertionOrder(old, new) ==
  \A x, y \in Range(new) :
    /\ (x \in Range(old) /\ y \in Range(old) /\ Pos(old, x) < Pos(old, y))
         => Pos(new, x) < Pos(new, y)
    /\ (x \in Range(old) /\ y \notin Range(old)) => Pos(new, x) < Pos(new, y)

\* C19: topRated(k) is the first k tracks (all when there are fewer) of the
\* rating-5 band, then the rating-4 band, and so on down to rating 0; a band
\* holds the stored tracks of its rating in the order they were inserted.
C19_TopRatedBandsInInsertionOrder ==
  /\ [](\A k \in Limits :
          get_top_rated_songs(RatingTree, k) = FirstK(BandsFrom(RatingTree, MaxRating), k))
  /\ [](\A r \in MinRating..MaxRating :
          /\ Range(Band(RatingTree, r)) = { s \in songs_by_id : song[s].rating = r }
          /\ \A s \in songs_by_id : Count(Band(RatingTree, r), s) <= 1)
  /\ [][ \A r \in MinRating..MaxRating :
           BandKeepsInsertionOrder(Band(RatingTree, r), Band(RatingTree', r)) ]_vars

\* two tracks share the top band, the track created second ahead of the track
\* created first, which was re-rated into the band; topRated(1) is the former
C19_Witness ==
  /\ last.op = "rate_song"
  /\ Band(RatingTree, MaxRating) = <<2, 1>>
  /\ get_top_rated_songs(RatingTree, 1) = <<2>>
  /\ Cardinality(DOMAIN tree) >= 3

\* C20: rangeQuery(a, b) returns, each once, the stored tracks whose rating
\* lies between the smaller and the larger of a and b, both clamped to 0..5
\* and both included, and no other track, whatever the shape of the tree.
C20_RangeQueryExact ==
  \A a, b \in RatingQueries :
    LET lo == Min(ClampRating(a), ClampRating(b))
        hi == Max(ClampRating(a), ClampRating(b))
        res == get_songs_by_rating_range(RatingTree, a, b)
    IN /\ Range(res) = { s \in songs_by_id : lo <= song[s].rating /\ song[s].rating <= hi }
       /\ \A s \in Range(res) : Count(res, s) = 1

\* the root has a subtree on either side, two tracks sit in nodes to the left
\* and to the right of it, and a query with its bounds reversed returns both
C20_Witness ==
  /\ root # None
  /\ tree[root].left # None
  /\ tree[root].right # None
  /\ \E s, t \in songs_by_id : song[s].rating < root /\ root < song[t].rating
  /\ Len(get_songs_by_rating_range(RatingTree, MaxRating + 1, MinRating)) = 2

\* ---------------------------------------------------------------- C15
\* A deletion or a re-rating is applied to every index it cascades over: a
\* track is in the identity index exactly when it is in the title buckets,
\* the artist buckets and the rating tree, it is a favorite only if it is
\* stored, and a stored track sits once, in the band of its own rating.
FullyApplied ==
  \A s \in DOMAIN song :
    LET stored == s \in songs_by_id
    IN /\ (s \in all_songs) = stored
       /\ (BucketsHolding(songs_by_title, s) # {}) = stored
       /\ (BucketsHolding(songs_by_artist, s) # {}) = stored
       /\ (s \in Range(RangeQuery(MinRating, MaxRating))) = stored
       /\ s \in HeapIds(heap) => stored
       /\ stored => Count(RangeQuery(song[s].rating, song[s].rating), s) = 1

NodesHolding(s) == { r \in DOMAIN tree : s \in Range(tree[r].songs) }

PlaylistSongs == get_songs(playlists, current_playlist_id, None)

\* C22: cleaning is idempotent under every strategy: the list that
\* clean_playlist_duplicates returns, with keep_highest_rated set or not, is
\* returned unchanged when it is cleaned again, and the same holds of
\* remove_duplicates.
C22_DedupeIdempotent ==
  [][ /\ \A keep \in BOOLEAN :
           (last'.op = "clean_playlist_duplicates" /\ CleanPlaylistDuplicates(None, keep)) =>
             clean_playlist_duplicates(song, current_strategy, last'.top, keep)
               = last'.top
      /\ (last'.op = "remove_duplicates" /\ RemoveDuplicates(None)) =>
           remove_duplicates(song, current_strategy, last'.top) = last'.top
    ]_vars

\* a cleaning under the strict strategy that dropped one song of three and
\* kept two
C22_Witness ==
  /\ last.op = "clean_playlist_duplicates"
  /\ current_strategy = "strict"
  /\ Len(PlaylistSongs) = 3
  /\ Len(last.top) = 2

\* ---------------------------------------------------------------- C23
KeyOf(g, x) == key_generator(g, song, x)
Group(S, g, k) == { i \in 1..Len(S) : KeyOf(g, S[i]) = k }
FirstSeen(S, g, k) == CHOOSE i \in Group(S, g, k) : \A j \in Group(S, g, k) : i <= j

\* r holds one song of S for each key of S, the keys in the order in which S
\* first shows them
OnePerKeyInFirstSeenOrder(S, r, g) ==
  /\ { KeyOf(g, r[i]) : i \in 1..Len(r) } = { KeyOf(g, S[i]) : i \in 1..Len(S) }
  /\ \A i \in 1..Len(r) : r[i] \in Range(S)
  /\ \A i, j \in 1..Len(r) :
       i < j => FirstSeen(S, g, KeyOf(g, r[i])) < FirstSeen(S, g, KeyOf(g, r[j]))

\* each song of r has the highest rating of its key group in S and, among the
\* songs of the group with that rating, the highest play count
RetainsBest(S, r, g) ==
  \A i \in 1..Len(r) :
    \A j \in Group(S, g, KeyOf(g, r[i])) :
      \/ song[S[j]].rating < song[r[i]].rating
      \/ /\ song[S[j]].rating = song[r[i]].rating
         /\ song[S[j]].play_count <= song[r[i]].play_count

\* each song of r is the first song of its key in S
RetainsFirst(S, r, g) ==
  \A i \in 1..Len(r) : r[i] = S[FirstSeen(S, g, KeyOf(g, r[i]))]

\* C23: under every strategy the cleaned list holds exactly one song per
\* composite key, the keys in first-seen order; with keep_highest_rated it is a
\* song of the highest rating of its group and, among those, of the highest
\* play count; without it, it is the first song met with that key.
C23_DedupeRetainsOnePerKey ==
  [][ /\ \A keep \in BOOLEAN :
           (last'.op = "clean_playlist_duplicates" /\ CleanPlaylistDuplicates(None, keep)) =>
             /\ OnePerKeyInFirstSeenOrder(PlaylistSongs, last'.top, current_strategy)
             /\ keep => RetainsBest(PlaylistSongs, last'.top, current_strategy)
             /\ ~keep => RetainsFirst(PlaylistSongs, last'.top, current_strategy)
    ]_vars

\* title_artist, keep_highest_rated: of the rating-2 song and the rating-5 song
\* of one key the rating-5 song is kept, in the place of the key, before a
\* song of another key
C23_Witness ==
  /\ last.op = "clean_playlist_duplicates"
  /\ current_strategy = "title_artist"
  /\ PlaylistSongs = << 1, 4, 2 >>
  /\ last.top = << 2, 4 >>

\* ---------------------------------------------------------------- C24
IsPermutation(a, b) ==
  /\ Len(a) = Len(b)
  /\ \A x \in Range(a) \cup Range(b) : Count(a, x) = Count(b, x)

\* r runs by the key of the criteria, upwards, or downwards under reverse
OrderedBy(r, criteria, reverse) ==
  \A i, j \in 1..Len(r) :
    i < j => IF reverse THEN KeyLe(criteria, song, r[j], r[i])
                        ELSE KeyLe(criteria, song, r[i], r[j])

\* C24: sort_by_<criteria> with the merge, the quick or the builtin algorithm
\* returns a permutation of the songs it was given, ordered by the key in the
\* direction asked for, and leaves the list it was given as it was.
C24_SortReturnsOrderedPermutation ==
  [][ \A c \in SortCriteria, r \in BOOLEAN, a \in SortAlgorithms :
        ( /\ last'.op = "sort_by"
          /\ sort_calls' = calls_after_sort(sort_calls, a)
          /\ SortBy(c, r, a) ) =>
          /\ IsPermutation(last'.top, PlaylistSongs)
          /\ OrderedBy(last'.top, c, r)
          /\ PlaylistSongs' = PlaylistSongs
    ]_vars

\* a quick sort of three songs that returned them in another order
C24_Witness ==
  /\ last.op = "sort_by"
  /\ sort_calls["quick"] = 1
  /\ SortCallsTotal = 1
  /\ Len(last.top) = 3
  /\ last.top # PlaylistSongs

\* ---------------------------------------------------------------- C25
\* C25: a list that sort_by_<criteria> returned is returned as it is when it
\* is sorted again by the same criteria, in the same direction and with the
\* same algorithm, songs of equal key in the same relative order, upwards and
\* downwards.
C25_SortIdempotent ==
  [][ \A c \in SortCriteria, r \in BOOLEAN, a \in SortAlgorithms :
        ( /\ last'.op = "sort_by"
          /\ sort_calls' = calls_after_sort(sort_calls, a)
          /\ SortBy(c, r, a) ) =>
          sort_with_algorithm(c, song, last'.top, r, a) = last'.top
    ]_vars

\* the same, of the sorts that run upwards only
SortIdempotentAscending ==
  [][ \A c \in SortCriteria, a \in SortAlgorithms :
        ( /\ last'.op = "sort_by"
          /\ sort_calls' = calls_after_sort(sort_calls, a)
          /\ SortBy(c, FALSE, a) ) =>
          sort_with_algorithm(c, song, last'.top, FALSE, a) = last'.top
    ]_vars

\* ---------------------------------------------------------------- C26
\* x must come before y: at the first criterion whose keys differ, the key of x
\* is the lower one, or the higher one when that criterion is reversed
RECURSIVE MustPrecede(_, _, _)
MustPrecede(criteria_list, x, y) ==
  IF criteria_list = <<>> THEN FALSE
  ELSE LET c == Head(criteria_list).criteria
       IN IF KeyEq(c, song, x, y) THEN MustPrecede(Tail(criteria_list), x, y)
          ELSE IF Head(criteria_list).reverse THEN KeyLt(c, song, y, x)
          ELSE KeyLt(c, song, x, y)

MultiOrdered(r, criteria_list) ==
  \A i, j \in 1..Len(r) : i < j => ~MustPrecede(criteria_list, r[j], r[i])

\* C26: sort_by_multiple_criteria orders the songs by the first criterion in
\* the direction asked for it, songs equal under it by the next criterion in
\* that criterion's direction, and so on, for number keys and for string keys
\* (title, artist), upwards and downwards.
C26_MultiSortHonoursEachDirection ==
  [][ \A cl \in CriteriaLists :
        (last'.op = "sort_by_multiple_criteria" /\ SortByMultiple(cl)) =>
          /\ IsPermutation(last'.top, PlaylistSongs)
          /\ MultiOrdered(last'.top, cl)
    ]_vars

\* the same, of the criteria lists in which a string key is never reversed
MultiSortOrderedUnlessStringReversed ==
  [][ \A cl \in CriteriaLists :
        ( /\ last'.op = "sort_by_multiple_criteria"
          /\ \A i \in 1..Len(cl) : cl[i].criteria \in StringCriteria => ~cl[i].reverse
          /\ SortByMultiple(cl) ) =>
          /\ IsPermutation(last'.top, PlaylistSongs)
          /\ MultiOrdered(last'.top, cl)
    ]_vars

\* ---------------------------------------------------------------- C27
\* C27: every sort call adds one to the call count of the algorithm it ran:
\* sort_by_<criteria> whatever its algorithm argument, the engine's
\* sort_playlist, and sort_by_multiple_criteria, so that the counts add up to
\* the number of sort calls made since the last reset.
C27_EverySortCallCounted ==
  [][ /\ \A c \in SortCriteria, r \in BOOLEAN, a \in AlgorithmInputs :
           (last'.op = "sort_by" /\ SortBy(c, r, a)) =>
             SortCallsTotal' = SortCallsTotal + 1
      /\ \A c \in SortCriteria, r \in BOOLEAN, a \in SortAlgorithms :
           (last'.op = "sort_playlist" /\ last'.ret /\ SortPlaylist(c, r, a, None)) =>
             SortCallsTotal' = SortCallsTotal + 1
      /\ \A cl \in CriteriaLists :
           (last'.op = "sort_by_multiple_criteria" /\ SortByMultiple(cl)) =>
             SortCallsTotal' = SortCallsTotal + 1
    ]_vars

\* the same, of the sorts by one criteria with the merge, the quick or the
\* builtin algorithm: the count of that algorithm, and no other, goes up by one
NamedAlgorithmSortsCounted ==
  [][ \A c \in SortCriteria, r \in BOOLEAN, a \in SortAlgorithms :
        ( /\ last'.op \in { "sort_by", "sort_playlist" }
          /\ last'.ret
          /\ SortBy(c, r, a) \/ SortPlaylist(c, r, a, None) ) =>
          sort_calls' = [sort_calls EXCEPT ![a] = @ + 1]
    ]_vars

\* ---------------------------------------------------------------- C28
\* the list without its entry at index i, and the list with x put in at index
\* j (indices from 0)
RemoveAt(S, i) == [k \in 1..(Len(S) - 1) |-> IF k <= i THEN S[k] ELSE S[k + 1]]
InsertAt(S, j, x) ==
  [k \in 1..(Len(S) + 1) |-> IF k <= j THEN S[k] ELSE IF k = j + 1 THEN x ELSE S[k - 1]]
ValidIndex(S, i) == 0 <= i /\ i < Len(S)

\* C28: move_song(i, j) with both indices in the list leaves the list that
\* removing the entry at i and inserting it at index j gives, and
\* move_song(j, i) on that list gives back the list as it was.
C28_MoveIsRemoveInsertAndReversible ==
  [][ \A i, j \in IndexInputs :
        ( /\ last'.op = "playlist_move_song"
          /\ ValidIndex(PlaylistSongs, i) /\ ValidIndex(PlaylistSongs, j)
          /\ PlaylistMoveSong(i, j, None) ) =>
          /\ last'.ret = TRUE
          /\ PlaylistSongs' = InsertAt(RemoveAt(PlaylistSongs, i), j, PlaylistSongs[i + 1])
          /\ playlist_move_song(PlaylistSongs', j, i) = [songs |-> PlaylistSongs, ret |-> TRUE]
    ]_vars

\* three different songs, the first of which has just been moved to the end
C28_Witness ==
  /\ last.op = "playlist_move_song"
  /\ last.ret = TRUE
  /\ PlaylistSongs = << 2, 3, 1 >>

\* ---------------------------------------------------------------- C29
\* C29: delete_song with an index outside 0..n-1 returns None and move_song
\* with either index outside 0..n-1 returns False, and both leave the list and
\* its length as they were; delete_song with an index inside removes the entry
\* at that index, no other, and returns it.
C29_OutOfRangeEditsRejected ==
  [][ /\ \A i \in IndexInputs :
           (last'.op = "playlist_delete_song" /\ PlaylistDeleteSong(i, None)) =>
             IF ValidIndex(PlaylistSongs, i)
             THEN /\ last'.item = PlaylistSongs[i + 1]
                  /\ PlaylistSongs' = RemoveAt(PlaylistSongs, i)
             ELSE /\ last'.item = None
                  /\ last'.ret = FALSE
                  /\ PlaylistSongs' = PlaylistSongs
      /\ \A i, j \in IndexInputs :
           ( /\ last'.op = "playlist_move_song"
             /\ ~(ValidIndex(PlaylistSongs, i) /\ ValidIndex(PlaylistSongs, j))
             /\ PlaylistMoveSong(i, j, None) ) =>
             /\ last'.ret = FALSE
             /\ PlaylistSongs' = PlaylistSongs
    ]_vars

\* a removal at an index outside a list of two songs has just been refused
C29_Witness ==
  /\ last.op = "playlist_delete_song"
  /\ last.ret = FALSE
  /\ Len(PlaylistSongs) = 2

\* ---------------------------------------------------------------- C30
\* where add_song(song, position) must put the song in a list S
InsertIndex(S, position) ==
  IF position = -1 \/ position >= Len(S) THEN Len(S) ELSE Max(0, position)

\* C30: add_song(song, position) returns True and makes the list one longer:
\* the song is last when position is -1 or at least the length, else it is at
\* index max(0, position), and the other entries keep their order. Stated of
\* PlaylistEngine.add_song, through which the engine inserts.
C30_InsertAtClampsAndAppends ==
  [][ \A s \in DOMAIN song, pos \in PositionInputs :
        (last'.op = "playlist_add_song" /\ PlaylistAddSong(s, pos, None)) =>
          /\ last'.ret = TRUE
          /\ Len(PlaylistSongs') = Len(PlaylistSongs) + 1
          /\ PlaylistSongs'[InsertIndex(PlaylistSongs, pos) + 1] = s
          /\ RemoveAt(PlaylistSongs', InsertIndex(PlaylistSongs, pos)) = PlaylistSongs
    ]_vars

\* the same, of Playlist.add_song called on the playlist object, and of
\* PlaylistEngine.add_song on a playlist that already holds a song
InsertIntoObjectClampsAndAppends ==
  [][ \A s \in DOMAIN song, pos \in PositionInputs :
        ( \/ last'.op = "add_song" /\ PlaylistObjectAddSong(s, pos, 1)
          \/ /\ last'.op = "playlist_add_song"
             /\ PlaylistSongs # <<>>
             /\ PlaylistAddSong(s, pos, None) ) =>
          /\ last'.ret = TRUE
          /\ Len(playlists'[1]) = Len(playlists[1]) + 1
          /\ playlists'[1][InsertIndex(playlists[1], pos) + 1] = s
          /\ RemoveAt(playlists'[1], InsertIndex(playlists[1], pos)) = playlists[1]
    ]_vars

\* a song has just been put between two others
C30_Witness ==
  /\ last.op = "playlist_add_song"
  /\ last.ret = TRUE
  /\ PlaylistSongs = << 1, 3, 2 >>

\* ---------------------------------------------------------------- C31
\* what a read at the present time builds from the present components
FreshSnapshot == snapshot_at(clock, playlists, songs_by_id, history)
CacheAge == clock - last_snapshot_time
Regenerated ==
  /\ last'.top = << FreshSnapshot >>
  /\ last_snapshot' = << FreshSnapshot >>
  /\ last_snapshot_time' = clock

\* C31: a read made cache_duration seconds or more after the cached snapshot
\* was generated, however long after, builds the snapshot anew from the
\* present state and puts it in the cache with the present time.
C31_ReadOutsideWindowRegenerates ==
  [][ ( /\ last_snapshot # <<>>
        /\ CacheAge >= cache_duration
        /\ GetDashboardData ) => Regenerated
    ]_vars

\* the same, of the reads made less than a day after the cached snapshot
ReadOutsideWindowWithinADayRegenerates ==
  [][ ( /\ last_snapshot # <<>>
        /\ CacheAge >= cache_duration
        /\ CacheAge < SecondsPerDay
        /\ GetDashboardData ) => Regenerated
    ]_vars

\* ---------------------------------------------------------------- C32
\* C32: a read made less than cache_duration seconds after the cached
\* snapshot was generated returns the cached snapshot and leaves the cache as
\* it is, whatever was created or played in between; no operation but a read
\* or clear_cache writes the cache, and the read after clear_cache builds the
\* snapshot anew.
C32_ReadInsideWindowReturnsCache ==
  [][ /\ ( /\ last_snapshot # <<>>
           /\ CacheAge < cache_duration
           /\ GetDashboardData ) =>
           /\ last'.top = last_snapshot
           /\ UNCHANGED << last_snapshot, last_snapshot_time >>
      /\ last'.op \notin { "get_dashboard_data", "clear_cache" } =>
           UNCHANGED << last_snapshot, last_snapshot_time >>
      /\ (last_snapshot = <<>> /\ GetDashboardData) => Regenerated
    ]_vars

\* a read inside the window has returned a snapshot that counts fewer songs
\* and fewer plays than the store now holds
C32_Witness ==
  /\ last.op = "get_dashboard_data"
  /\ last.top = last_snapshot
  /\ CacheAge > 0 /\ CacheAge < cache_duration
  /\ last.top[1].total_songs < Cardinality(songs_by_id)
  /\ last.top[1].total_plays < Len(history)

\* ---------------------------------------------------------------- C33
\* C33: the rating of every song is in 0..5 in every state: a song is created
\* and re-rated with the rating asked for brought into 0..5, and
\* merge_duplicate_metadata gives the original a rating that it or one of the
\* duplicates held.
C33_RatingAlwaysInRange ==
  \A s \in DOMAIN song : song[s].rating \in MinRating..MaxRating

\* the rating that merge_duplicate_metadata leaves is one the original or a
\* duplicate held
MergeAssignsAHeldRating ==
  [][ \A o \in Ids, dl \in DuplicateLists :
        (last'.op = "merge_duplicate_metadata" /\ MergeDuplicateMetadata(o, dl)) =>
          song'[o].rating \in
            { song[o].rating } \cup { song[dl[i]].rating : i \in 1..Len(dl) }
    ]_vars

\* a song whose rating was asked below 0 has been merged with one whose rating
\* was asked above 5, and holds that song's rating
C33_Witness ==
  /\ last.op = "merge_duplicate_metadata"
  /\ song[last.item].rating = MaxRating
  /\ \E s \in DOMAIN song : song[s].rating = MinRating

\* ---------------------------------------------------------------- C34
\* the number of entries of the rating tree, over all its nodes, that are s
TreeEntriesOf(s) ==
  Cardinality({ << r, i >> \in (DOMAIN tree) \X (1..MaxSongs) :
                  i <= Len(tree[r].songs) /\ tree[r].songs[i] = s })

\* every stored song is held once by the rating tree, by the node of its
\* rating, and the tree holds no song that is not stored
RatingIndexConsistent ==
  /\ \A s \in songs_by_id :
       /\ TreeEntriesOf(s) = 1
       /\ NodesHolding(s) = { song[s].rating }
  /\ \A r \in DOMAIN tree : Range(tree[r].songs) \subseteq songs_by_id

\* C34: create_song, rate_song, the API's update_song (with or without a new
\* rating) and the API's delete_song each leave the rating tree consistent
\* with the identity index when they find it so.
C34_RatingIndexFollowsIdentityIndex ==
  [][ ( /\ last'.op \in { "create_song", "rate_song", "update_song", "delete_song" }
        /\ RatingIndexConsistent ) => RatingIndexConsistent'
    ]_vars

\* the same, of create_song, rate_song, delete_song and of update_song when
\* it leaves the rating as it is
RatingIndexFollowsWithoutApiRatingChange ==
  [][ ( /\ last'.op \in { "create_song", "rate_song", "update_song", "delete_song" }
        /\ \A s \in DOMAIN song :
             last'.op = "update_song" => song'[s].rating = song[s].rating
        /\ RatingIndexConsistent ) => RatingIndexConsistent'
    ]_vars

\* ---------------------------------------------------------------- C35
\* C35: after plays, every entry of the favorites heap stores the listen time
\* and the play count that its song now has, so that get_top_songs reports
\* the present values.
C35_FavoriteEntriesCurrent ==
  \A i \in 1..Len(heap) :
    /\ heap[i].listen_time = song[heap[i].song].listen_time
    /\ heap[i].play_count = song[heap[i].song].play_count

\* the same, of the stored listen time and of the priority made from it
FavoriteListenTimesCurrent ==
  \A i \in 1..Len(heap) :
    /\ heap[i].listen_time = song[heap[i].song].listen_time
    /\ heap[i].priority = -song[heap[i].song].listen_time

\* ---------------------------------------------------------------- C36
\* C36: the engine's clean_duplicates leaves in the playlist the list that
\* cleaning its songs gives (highest rated kept, under the strategy asked
\* for), and reports as duplicates_removed the length of the playlist before
\* the cleaning less its length after it.
C36_CleanDuplicatesReplacesAndReports ==
  [][ \A g \in Strategies :
        (last'.op = "clean_duplicates" /\ last'.ret /\ CleanDuplicates(None, g)) =>
          /\ playlists'[1] = clean_playlist_duplicates(song, g, playlists[1], TRUE)
          /\ last'.item = Len(playlists[1]) - Len(playlists'[1])
    ]_vars

\* the list that clean_duplicates computes, and counts as total_songs, is the
\* cleaned list
CleanDuplicatesComputesCleanedList ==
  [][ \A g \in Strategies :
        (last'.op = "clean_duplicates" /\ last'.ret /\ CleanDuplicates(None, g)) =>
          last'.top = clean_playlist_duplicates(song, g, playlists[1], TRUE)
    ]_vars

C38_EmptyExactlyWhenCountIsZero ==
  /\ is_empty(RatingTree) <=> (get_song_count(RatingTree) = 0)
  /\ get_song_count(RatingTree) = songs_in_nodes(tree, DOMAIN tree)

\* get_song_count() is the number of songs that the nodes hold, and a tree
\* that is_empty() counts none
SongCountIsSongsInNodes ==
  /\ get_song_count(RatingTree) = songs_in_nodes(tree, DOMAIN tree)
  /\ is_empty(RatingTree) => get_song_count(RatingTree) = 0

\* ---------------------------------------------------------------- C39
\* the current id names a playlist that exists when there is one, and is unset
\* when there is none
CurrentPlaylistExists ==
  IF DOMAIN playlists = {} THEN current_playlist_id = None
  ELSE current_playlist_id \in DOMAIN playlists

\* C39: after any create_playlist, delete_playlist and set_current_playlist
\* calls the current playlist id names an existing playlist whenever a playlist
\* exists and is unset only when none does; set_current_playlist with an id
\* that names no playlist fails and leaves the current id as it was.
C39_CurrentPlaylistAlwaysExists ==
  [][ /\ CurrentPlaylistExists'
      /\ \A p \in PlaylistIdInputs :
           ( /\ last'.op = "set_current_playlist"
             /\ p \notin DOMAIN playlists
             /\ SetCurrentPlaylist(p) ) =>
             /\ ~last'.ret
             /\ current_playlist_id' = current_playlist_id
    ]_vars

\* the first playlist, which was the current one, was deleted while a later one
\* existed, and the later one is the current one now
C39_Witness ==
  /\ last.op = "delete_playlist"
  /\ last.ret
  /\ last.item = 1
  /\ DOMAIN playlists = { 2 }
  /\ current_playlist_id = 2

\* ---------------------------------------------------------------- C40
\* C40: an operation given the id of a playlist that does not exist never
\* falls back to the current playlist: add, delete, move, reverse, clear,
\* get_songs and get_playlist_info report failure, not found or an empty list,
\* and neither change nor return the current playlist.
C40_UnknownIdNeverFallsBack ==
  [][ \A p \in PlaylistIdInputs :
        ( /\ p \notin DOMAIN playlists
          /\ last'.op \notin { "create_playlist", "set_current_playlist",
                                "delete_playlist", "add_song" }
          /\ (OperationOn(p) \/ GetPlaylistInfo(p)) ) =>
          /\ ~last'.ret
          /\ last'.top = <<>>
          /\ last'.item = None
          /\ playlists' = playlists
    ]_vars

\* the same of the operations of PlaylistEngine, which look the id up with
\* _get_target_playlist
PlaylistEngineNeverFallsBack ==
  [][ \A p \in PlaylistIdInputs :
        ( /\ p \notin DOMAIN playlists
          /\ last'.op \notin { "create_playlist", "set_current_playlist",
                                "delete_playlist", "add_song", "get_playlist_info" }
          /\ OperationOn(p) ) =>
          /\ ~last'.ret
          /\ last'.top = <<>>
          /\ last'.item = None
          /\ playlists' = playlists
    ]_vars

====
